---- MODULE Spec2Model ----
(***************************************************************************)
(* State-machine model of libsqlite3_turso: the prepared-statement state   *)
(* machine (lib.rs, sqlite.rs), the transaction/baton protocol (sqlite.rs, *)
(* utils.rs), request construction (transport/mod.rs, http.rs, wss.rs) and *)
(* the bounded-retry HTTP send (transport/http.rs).                        *)
(*                                                                         *)
(* One database handle and one prepared-statement slot are modelled.  A    *)
(* foreign call that needs the network suspends inside the transport       *)
(* (pc = "http" or "ws"); every other call is one atomic action.           *)
(***************************************************************************)
EXTENDS Integers, Sequences, FiniteSets, TLC

\* ------------------------------------------------------------------------
\* Bounds of the model
\* ------------------------------------------------------------------------
MaxRows == 2
MaxErrors == 2
\* Hook callbacks invoked in a behaviour
MaxInvocations == 2
\* Connections attempted on one WebSocketStrategy
MaxConnects == 2

\* ------------------------------------------------------------------------
\* Result codes (sqlite.rs)
\* ------------------------------------------------------------------------
SQLITE_OK == 0
SQLITE_ERROR == 1
SQLITE_MISUSE == 21
SQLITE_ROW == 100
SQLITE_DONE == 101
SQLITE_RANGE == 25
SQLITE_BUSY == 5
SQLITE_CANTOPEN == 14
SQLITE_UPDATE == 23
SQLITE_INSERT == 18
SQLITE_DELETE == 9
MAX_ATTEMPTS == 5
RETRY_DELAY_MS == 100

SQLITE_NO_ACTIVE_TRANSACTION_ERR_MSG == <<"No transaction is currently active.">>
SQLITE_ALREADY_ACTIVE_TRANSACTION_ERR_MSG == <<"A transaction is already active.">>
IN_MEMORY_ERR_MSG == <<"In-memory databases are not supported">>

\* ------------------------------------------------------------------------
\* Option<T>: None is the empty sequence, Some(x) the one-element sequence
\* ------------------------------------------------------------------------
None == <<>>
Some(x) == <<x>>
IsSome(o) == o # <<>>
Unwrap(o) == o[1]

\* Result<T, SqliteError>
Ok(v) == [ok |-> TRUE, val |-> v]
Err(e) == [ok |-> FALSE, err |-> e]

\* SqliteError::new(message, code): the code defaults to SQLITE_ERROR
SqliteError_new(message, code) ==
  [message |-> message, code |-> IF IsSome(code) THEN Unwrap(code) ELSE SQLITE_ERROR]

\* impl Display for SqliteError: "SQLite error (code {}): {}"
SqliteError_fmt(e) ==
  <<"SQLite error (code ", ToString(e.code), "): ">> \o e.message

\* ------------------------------------------------------------------------
\* SQL text, as a sequence of lexical tokens
\* ------------------------------------------------------------------------
Batons == {"b1", "b2"}

\* Database names, as sequences of lexical tokens
Filenames ==
  { <<":memory", ":">>, <<"file:", ":memory", ":?cache=shared">>, <<"mydb.turso.io">> }

\* The name compared for equality with ":memory:" instead of searched
contains_Equals(text, pattern) == text = <<pattern, ":">>

\* str::contains
contains(text, pattern) == \E i \in DOMAIN text : text[i] = pattern

PrepareSqls ==
  { <<"BEGIN">>, <<"begin">>, <<"COMMIT">>, <<"ROLLBACK">>, <<"SELECT", "?">> }

ExecSqls ==
  { <<"BEGIN">>, <<"begin">>, <<"COMMIT">>, <<"ROLLBACK">>, <<"PRAGMA">>, <<"SELECT">> }

\* str::to_uppercase, token by token
UpperTok(t) ==
  CASE t = "begin" -> "BEGIN"
    [] t = "commit" -> "COMMIT"
    [] t = "rollback" -> "ROLLBACK"
    [] t = "pragma" -> "PRAGMA"
    [] t = "select" -> "SELECT"
    [] OTHER -> t

to_uppercase(sql) == [i \in 1..Len(sql) |-> UpperTok(sql[i])]

starts_with(sql, kw) == Len(sql) > 0 /\ sql[1] = kw

sql_is_begin_transaction(sql) == starts_with(sql, "BEGIN")
sql_is_pragma(sql) == starts_with(sql, "PRAGMA")
sql_is_rollback(sql) == starts_with(sql, "ROLLBACK")
sql_is_commit(sql) == starts_with(sql, "COMMIT")

RECURSIVE CountTok(_, _)
CountTok(sql, i) ==
  IF i > Len(sql) THEN 0
  ELSE (IF sql[i] = "?" THEN 1 ELSE 0) + CountTok(sql, i + 1)

count_parameters(sql) == CountTok(sql, 1)

\* ------------------------------------------------------------------------
\* Values, bound parameters, server results
\* ------------------------------------------------------------------------
\* enum Value: the tag, the number of Integer and Real, the string of Text
ValueInteger(i) == [tag |-> "Integer", v |-> i, text |-> <<>>]
ValueNull == [tag |-> "Null", v |-> 0, text |-> <<>>]
ValueReal(f) == [tag |-> "Real", v |-> f, text |-> <<>>]
ValueText(s) == [tag |-> "Text", v |-> 0, text |-> s]

\* The arguments of a bind call besides the statement and the index: the
\* entry point, and the value as that entry point takes it.  For
\* sqlite3_bind_text that is a pointer (null or not) to bytes; the byte
\* "0xFF" never occurs in UTF-8.
BindInt64(i) == [fn |-> "int64", is_null |-> FALSE, bytes |-> <<>>, num |-> i]
BindNull == [fn |-> "null", is_null |-> FALSE, bytes |-> <<>>, num |-> 0]
BindDouble(f) == [fn |-> "double", is_null |-> FALSE, bytes |-> <<>>, num |-> f]
BindText(bytes) == [fn |-> "text", is_null |-> FALSE, bytes |-> bytes, num |-> 0]
BindTextNullPtr == [fn |-> "text", is_null |-> TRUE, bytes |-> <<>>, num |-> 0]

BindCalls ==
  { BindInt64(7), BindNull, BindDouble(2), BindText(<<"a">>), BindText(<<"0xFF">>),
    BindTextNullPtr }

\* The bind calls of the whole-API specification
CoreBindCalls == { BindInt64(7), BindNull }

\* std::str::from_utf8, and the String made of the bytes
from_utf8(bytes) ==
  IF \E i \in DOMAIN bytes : bytes[i] = "0xFF" THEN Err(bytes) ELSE Ok(bytes)

\* The Value an entry point makes of its argument
BoundValue(b) ==
  CASE b.fn = "int64" -> ValueInteger(b.num)
    [] b.fn = "double" -> ValueReal(b.num)
    [] b.fn = "text" -> ValueText(from_utf8(b.bytes).val)
    [] OTHER -> ValueNull

\* HashMap::insert
insert(map, k, v) == [i \in (DOMAIN map) \cup {k} |-> IF i = k THEN v ELSE map[i]]

\* convert_params_to_json: the values sorted by index, as {type, value}
RECURSIVE SortedKeys(_)
SortedKeys(S) ==
  IF S = {} THEN <<>>
  ELSE LET m == CHOOSE x \in S : \A y \in S : x <= y
       IN <<m>> \o SortedKeys(S \ {m})

ParamJson(value) ==
  CASE value.tag = "Integer" -> [type |-> "integer", value |-> Some(ToString(value.v))]
    [] value.tag = "Real" -> [type |-> "float", value |-> Some(ToString(value.v))]
    [] value.tag = "Text" -> [type |-> "text", value |-> Some(value.text)]
    [] OTHER -> [type |-> "null", value |-> None]

convert_params_to_json(params) ==
  LET ks == SortedKeys(DOMAIN params)
  IN [i \in 1..Len(ks) |-> ParamJson(params[ks[i]])]

\* A cell of a server row: {type, value}
RemoteRow(i) == [type |-> "integer", value |-> Some(i)]

\* QueryResult with n rows; row i holds the single integer cell i.  The
\* server reports neither last_insert_rowid nor rows_written.
QueryResult(n, cols) ==
  [cols |-> cols, rows |-> [i \in 1..n |-> <<RemoteRow(i)>>],
   last_insert_rowid |-> None, rows_written |-> None]

\* The result of a write: no rows, and what the server reports
WriteResult(rowid, written) ==
  [QueryResult(0, <<>>) EXCEPT !.last_insert_rowid = rowid, !.rows_written = written]

\* last_insert_rowid as the server sends it, a string
RowidStrings == {"7", "12", "abc"}

WriteResults ==
  { WriteResult(rowid, written) :
      rowid \in {None} \cup {Some(t) : t \in RowidStrings},
      written \in {None, Some(1), Some(2)} }

\* str::parse::<i64>
parse_i64(t) ==
  CASE t = "7" -> Ok(7)
    [] t = "12" -> Ok(12)
    [] OTHER -> Err(t)

\* Result::unwrap_or
unwrap_or(r, default) == IF r.ok THEN r.val ELSE default

QueryResults ==
  { QueryResult(n, <<"c">>) : n \in 0..MaxRows } \cup { QueryResult(0, <<>>) }

\* results[0] of a RemoteSqliteResponse
ExecuteResult(qr) == [type |-> "execute", result |-> qr]
ErrorResult == [type |-> "error", result |-> QueryResult(0, <<>>)]
CloseResult == [type |-> "close", result |-> QueryResult(0, <<>>)]

\* RemoteSqliteResponse {baton, results}
RemoteSqliteResponse(baton, results) == [baton |-> baton, results |-> results]

OptBatons == {None} \cup {Some(b) : b \in Batons}

\* The well-formed 2xx bodies an HTTP server can answer with
HttpResponses ==
  { RemoteSqliteResponse(b, <<ExecuteResult(qr)>>) : b \in OptBatons, qr \in QueryResults }
  \cup { RemoteSqliteResponse(b, r) : b \in OptBatons,
                                      r \in {<<ErrorResult>>, <<CloseResult>>, <<>>} }

\* execute_stmt's decoding of one cell
DecodeCell(cell) ==
  IF ~IsSome(cell.value) THEN ValueNull
  ELSE IF cell.type = "integer" THEN ValueInteger(Unwrap(cell.value))
  ELSE ValueNull

DecodeRows(rows) ==
  [i \in 1..Len(rows) |-> [j \in 1..Len(rows[i]) |-> DecodeCell(rows[i][j])]]

\* ------------------------------------------------------------------------
\* Request construction (transport/http.rs, transport/wss.rs, transport/mod.rs)
\* ------------------------------------------------------------------------
ExecuteStep(sql, params) ==
  [type |-> "execute", stmt |-> [sql |-> sql, args |-> params]]

CloseStep == [type |-> "close"]

\* HttpStrategy::get_json_request without the `request["baton"] = ...` branch
HttpStrategy_get_json_request_NoBaton(sql, params, baton, is_transacting) ==
  IF is_transacting
  THEN [requests |-> <<ExecuteStep(sql, params)>>]
  ELSE [requests |-> <<ExecuteStep(sql, params), CloseStep>>]

\* HttpStrategy::get_json_request with the close step pushed unconditionally
HttpStrategy_get_json_request_AlwaysClose(sql, params, baton, is_transacting) ==
  IF is_transacting
  THEN [baton |-> baton, requests |-> <<ExecuteStep(sql, params), CloseStep>>]
  ELSE [requests |-> <<ExecuteStep(sql, params), CloseStep>>]

\* HttpStrategy::get_json_request
HttpStrategy_get_json_request(sql, params, baton, is_transacting) ==
  IF is_transacting
  THEN [baton |-> baton, requests |-> <<ExecuteStep(sql, params)>>]
  ELSE [requests |-> <<ExecuteStep(sql, params), CloseStep>>]

\* WebSocketStrategy::get_json_request: baton and is_transacting are unused
WebSocketStrategy_get_json_request(sql, params, baton, is_transacting) ==
  ExecuteStep(sql, params)

\* DatabaseConnection::get_json_request
DatabaseConnection_get_json_request(d, sql, params) ==
  LET baton_str == d.transaction_baton
      has_begun_transaction == d.transaction_has_began
  IN IF d.strategy = "Http"
     THEN HttpStrategy_get_json_request(sql, params, baton_str, has_begun_transaction)
     ELSE WebSocketStrategy_get_json_request(sql, params, baton_str, has_begun_transaction)

\* The request HttpStrategy::get_transaction_baton builds
BatonRequest(sql) ==
  [requests |-> << [type |-> "execute", stmt |-> [sql |-> sql]] >>]

\* ------------------------------------------------------------------------
\* The handle and the statement as values
\* ------------------------------------------------------------------------
\* SQLite3 as sqlite3_open_v2 builds it, on the given transport
NewDb(strategy) ==
  [alive |-> TRUE, strategy |-> strategy, transaction_baton |-> None,
   transaction_has_began |-> FALSE, last_insert_rowid |-> None, rows_written |-> None,
   update_hook |-> None, insert_hook |-> None, delete_hook |-> None]

\* No handle: *db has not been assigned
NoDb ==
  [alive |-> FALSE, strategy |-> "Http", transaction_baton |-> None,
   transaction_has_began |-> FALSE, last_insert_rowid |-> None, rows_written |-> None,
   update_hook |-> None, insert_hook |-> None, delete_hook |-> None]

\* The variant that stores every callback in the update slot
register_hook_UpdateSlot(d, op, callback, user_data) ==
  LET entry == IF IsSome(callback) THEN Some(<<Unwrap(callback), user_data>>) ELSE None
  IN IF op \in {SQLITE_UPDATE, SQLITE_INSERT, SQLITE_DELETE}
     THEN [db |-> [d EXCEPT !.update_hook = entry], code |-> SQLITE_OK]
     ELSE [db |-> d, code |-> SQLITE_MISUSE]

\* SQLite3::register_hook: the handle afterwards and the code returned.  A
\* slot holds Some(<<callback, user_data>>) or nothing.
register_hook(d, op, callback, user_data) ==
  LET entry == IF IsSome(callback) THEN Some(<<Unwrap(callback), user_data>>) ELSE None
  IN CASE op = SQLITE_UPDATE -> [db |-> [d EXCEPT !.update_hook = entry], code |-> SQLITE_OK]
       [] op = SQLITE_INSERT -> [db |-> [d EXCEPT !.insert_hook = entry], code |-> SQLITE_OK]
       [] op = SQLITE_DELETE -> [db |-> [d EXCEPT !.delete_hook = entry], code |-> SQLITE_OK]
       [] OTHER -> [db |-> d, code |-> SQLITE_MISUSE]

\* The slot trigger_hook reads for op; the second component tells whether op
\* has a slot at all
hook_of(d, op) ==
  CASE op = SQLITE_UPDATE -> <<d.update_hook, TRUE>>
    [] op = SQLITE_INSERT -> <<d.insert_hook, TRUE>>
    [] op = SQLITE_DELETE -> <<d.delete_hook, TRUE>>
    [] OTHER -> <<None, FALSE>>

\* The operations, callbacks and user pointers hooks are exercised with;
\* SQLITE_OK stands for an op that is none of the three
HookOps == {SQLITE_UPDATE, SQLITE_INSERT, SQLITE_DELETE, SQLITE_OK}
Registrations ==
  { [callback |-> None, user_data |-> "u1"],
    [callback |-> Some("cb1"), user_data |-> "u1"],
    [callback |-> Some("cb2"), user_data |-> "u2"] }

\* sqlite3_last_insert_rowid
sqlite3_last_insert_rowid(d) ==
  IF IsSome(d.last_insert_rowid) THEN Unwrap(d.last_insert_rowid) ELSE 0

\* sqlite3_changes
sqlite3_changes(d) ==
  IF IsSome(d.rows_written) THEN Unwrap(d.rows_written) ELSE 0

\* No statement prepared (or the statement finalized)
NoStmt ==
  [alive |-> FALSE, sql |-> <<>>, param_count |-> 0, params |-> <<>>,
   execution_state |-> "Prepared", result_rows |-> <<>>, current_row |-> None,
   column_names |-> <<>>]

\* SQLite3PreparedStmt::new / the statement sqlite3_prepare_v3 allocates
NewStmt(sql) ==
  [alive |-> TRUE, sql |-> sql, param_count |-> count_parameters(sql), params |-> <<>>,
   execution_state |-> "Prepared", result_rows |-> <<>>, current_row |-> None,
   column_names |-> <<>>]

\* The variant whose range check lets the index param_count + 1 through
sqlite3_bind_value_OneMore(s, b, index) ==
  IF b.fn = "text" /\ b.is_null THEN [stmt |-> s, code |-> SQLITE_MISUSE]
  ELSE IF index <= 0 \/ index > s.param_count + 1 THEN [stmt |-> s, code |-> SQLITE_RANGE]
  ELSE IF b.fn = "text" /\ ~from_utf8(b.bytes).ok THEN [stmt |-> s, code |-> SQLITE_MISUSE]
  ELSE [stmt |-> [s EXCEPT !.params = insert(@, index, BoundValue(b))],
        code |-> SQLITE_OK]

\* sqlite3_bind_text / _double / _int64 / _null on a statement that is not
\* null: the statement afterwards and the code returned
sqlite3_bind_value(s, b, index) ==
  IF b.fn = "text" /\ b.is_null THEN [stmt |-> s, code |-> SQLITE_MISUSE]
  ELSE IF index <= 0 \/ index > s.param_count THEN [stmt |-> s, code |-> SQLITE_RANGE]
  ELSE IF b.fn = "text" /\ ~from_utf8(b.bytes).ok THEN [stmt |-> s, code |-> SQLITE_MISUSE]
  ELSE [stmt |-> [s EXCEPT !.params = insert(@, index, BoundValue(b))],
        code |-> SQLITE_OK]

\* SQLite3::has_began_transaction
has_began_transaction(d) == d.transaction_has_began

\* sqlite3_get_autocommit
sqlite3_get_autocommit(d) == IF has_began_transaction(d) THEN 0 ELSE 1

\* The variant that marks the transaction inactive and keeps the baton
reset_txn_on_db_KeepsBaton(d) ==
  IF ~has_began_transaction(d) THEN d
  ELSE [d EXCEPT !.transaction_has_began = FALSE]

\* reset_txn_on_db
reset_txn_on_db(d) ==
  IF ~has_began_transaction(d) THEN d
  ELSE [d EXCEPT !.transaction_has_began = FALSE, !.transaction_baton = None]

\* ERROR_STACK is only ever pushed to (push_error) and read at its last entry
\* (get_latest_error): it is kept as its length and its last entry.
EmptyStack == [len |-> 0, top |-> None]

\* The variant that clears the stack before it pushes
push_error_Clears(stack, error) == [len |-> 1, top |-> Some(error)]

\* push_error
push_error(stack, error) == [len |-> stack.len + 1, top |-> Some(error)]

\* get_latest_error: stack.last().cloned()
get_latest_error(stack) == stack.top

\* sqlite3_extended_errcode
sqlite3_extended_errcode(stack) ==
  IF IsSome(get_latest_error(stack)) THEN Unwrap(get_latest_error(stack))[2] ELSE SQLITE_OK

\* CString::new: a message with an interior NUL byte has no C string
CString_new(message) ==
  IF \E i \in DOMAIN message : message[i] = "\\0" THEN Err(message) ELSE Ok(message)

\* sqlite3_errmsg: the C string returned, None for the null pointer
sqlite3_errmsg(stack) ==
  IF IsSome(get_latest_error(stack)) /\ CString_new(Unwrap(get_latest_error(stack))[1]).ok
  THEN Some(CString_new(Unwrap(get_latest_error(stack))[1]).val)
  ELSE None

\* execute_async_task: the task's result turned into (error stack, result code)
execute_async_task(stack, result) ==
  IF result.ok
  THEN [stack |-> stack, code |-> result.val]
  ELSE [stack |-> push_error(stack, <<SqliteError_fmt(result.err), result.err.code>>),
        code |-> SQLITE_ERROR]

\* iterate_rows: the statement afterwards and the code returned
iterate_rows(s) ==
  IF IsSome(s.current_row) /\ Unwrap(s.current_row) + 1 < Len(s.result_rows)
  THEN [stmt |-> [s EXCEPT !.current_row = Some(Unwrap(s.current_row) + 1),
                           !.execution_state = "Row"],
        code |-> SQLITE_ROW]
  ELSE IF IsSome(s.current_row)
  THEN [stmt |-> [s EXCEPT !.current_row = None, !.execution_state = "Done"],
        code |-> SQLITE_DONE]
  ELSE IF Len(s.result_rows) # 0
  THEN [stmt |-> [s EXCEPT !.current_row = Some(0), !.execution_state = "Row"],
        code |-> SQLITE_ROW]
  ELSE [stmt |-> [s EXCEPT !.execution_state = "Done"], code |-> SQLITE_DONE]

\* get_execution_result: the handle afterwards and the first result
get_execution_result(d, response) ==
  LET d2 == IF IsSome(response.baton)
            THEN [d EXCEPT !.transaction_baton = response.baton]
            ELSE d
  IN IF Len(response.results) = 0
     THEN [db |-> d2,
           res |-> Err(SqliteError_new(<<"No results returned from remote SQLite">>, None))]
     ELSE IF response.results[1].type = "error"
     THEN [db |-> d2,
           res |-> Err(SqliteError_new(<<"Remote SQLite error (code ", "): ">>,
                                       Some(SQLITE_ERROR)))]
     ELSE IF response.results[1].type = "close"
     THEN [db |-> d2,
           res |-> Err(SqliteError_new(
                         <<"Remote SQLite closed the connection unexpectedly">>, None))]
     ELSE LET first_execution_result == response.results[1].result
              d3 == IF IsSome(first_execution_result.last_insert_rowid)
                    THEN [d2 EXCEPT !.last_insert_rowid =
                            Some(unwrap_or(parse_i64(
                                   Unwrap(first_execution_result.last_insert_rowid)), 0))]
                    ELSE d2
              d4 == IF IsSome(first_execution_result.rows_written)
                    THEN [d3 EXCEPT !.rows_written = first_execution_result.rows_written]
                    ELSE d3
          IN [db |-> d4, res |-> Ok(first_execution_result)]

\* The variant that goes back to the WebSocket when an HTTP request fails
execute_sql_and_params_SwitchBack(d, sent) ==
  IF d.strategy = "Websocket"
  THEN IF sent.ok
       THEN [db |-> d, res |-> sent]
       ELSE [db |-> [d EXCEPT !.strategy = "Http"], res |-> sent]
  ELSE IF ~sent.ok
       THEN [db |-> [d EXCEPT !.strategy = "Websocket"],
             res |-> Err(SqliteError_new(SqliteError_fmt(sent.err), Some(SQLITE_ERROR)))]
       ELSE [db |-> d, res |-> sent]

\* execute_sql_and_params, from the transport's answer on
execute_sql_and_params(d, sent) ==
  IF d.strategy = "Websocket"
  THEN IF sent.ok
       THEN [db |-> d, res |-> sent]
       ELSE [db |-> [d EXCEPT !.strategy = "Http"], res |-> sent]
  ELSE IF ~sent.ok
       THEN [db |-> d,
             res |-> Err(SqliteError_new(SqliteError_fmt(sent.err), Some(SQLITE_ERROR)))]
       ELSE [db |-> d, res |-> sent]

\* The variant of execute_stmt that ends the local transaction once the
\* statement has been answered
execute_stmt_EndsTransaction(d, s, sent) ==
  LET r1 == execute_sql_and_params(d, sent)
      r2 == get_execution_result(r1.db, r1.res.val)
  IN IF ~r1.res.ok THEN [db |-> r1.db, stmt |-> s, res |-> r1.res]
     ELSE IF ~r2.res.ok THEN [db |-> r2.db, stmt |-> s, res |-> r2.res]
     ELSE [db |-> reset_txn_on_db(r2.db),
           stmt |-> [s EXCEPT !.column_names = r2.res.val.cols,
                              !.result_rows = DecodeRows(r2.res.val.rows)],
           res |-> Ok(SQLITE_OK)]

\* execute_stmt, from the transport's answer on
execute_stmt(d, s, sent) ==
  LET r1 == execute_sql_and_params(d, sent)
      r2 == get_execution_result(r1.db, r1.res.val)
  IN IF ~r1.res.ok THEN [db |-> r1.db, stmt |-> s, res |-> r1.res]
     ELSE IF ~r2.res.ok THEN [db |-> r2.db, stmt |-> s, res |-> r2.res]
     ELSE [db |-> r2.db,
           stmt |-> [s EXCEPT !.column_names = r2.res.val.cols,
                              !.result_rows = DecodeRows(r2.res.val.rows)],
           res |-> Ok(SQLITE_OK)]

\* handle_execute: execute_stmt on a temporary statement that is then dropped
handle_execute(d, sql, sent) ==
  LET r == execute_stmt(d, NewStmt(sql), sent)
  IN [db |-> r.db, res |-> r.res]

\* HttpStrategy::get_transaction_baton, from send's answer on
HttpStrategy_get_transaction_baton(sent) ==
  IF ~sent.ok
  THEN Err(SqliteError_new(<<"Failed to get transaction baton: ">> \o SqliteError_fmt(sent.err),
                           Some(SQLITE_ERROR)))
  ELSE IF ~IsSome(sent.val.baton)
  THEN Err(SqliteError_new(<<"Failed to get transaction baton">>, Some(SQLITE_ERROR)))
  ELSE Ok(Unwrap(sent.val.baton))

\* begin_tnx_on_db: the guard that refuses a second BEGIN
begin_tnx_on_db_busy(d) == has_began_transaction(d)

AlreadyActiveError ==
  SqliteError_new(SQLITE_ALREADY_ACTIVE_TRANSACTION_ERR_MSG, Some(SQLITE_BUSY))

\* begin_tnx_on_db, from get_transaction_baton's answer on
begin_tnx_on_db(d, baton_value) ==
  IF ~baton_value.ok THEN [db |-> d, res |-> baton_value]
  ELSE [db |-> [d EXCEPT !.transaction_baton = Some(baton_value.val),
                         !.transaction_has_began = TRUE],
        res |-> Ok(SQLITE_OK)]

\* commit_tnx_on_db: the guard that refuses COMMIT outside a transaction
commit_tnx_on_db_inactive(d) == ~has_began_transaction(d)

NoActiveError ==
  SqliteError_new(SQLITE_NO_ACTIVE_TRANSACTION_ERR_MSG, Some(SQLITE_ERROR))

\* commit_tnx_on_db without the take() of the baton and reset_txn_on_db
commit_tnx_on_db_NoReset(d, sent) ==
  LET r1 == execute_sql_and_params(d, sent)
  IN IF ~r1.res.ok THEN [db |-> r1.db, res |-> r1.res]
     ELSE [db |-> r1.db, res |-> Ok(SQLITE_OK)]

\* commit_tnx_on_db with the baton taken and the transaction reset before
\* the outcome of the send is looked at
commit_tnx_on_db_ResetsFirst(d, sent) ==
  LET r1 == execute_sql_and_params(d, sent)
      d2 == reset_txn_on_db([r1.db EXCEPT !.transaction_baton = None])
  IN IF ~r1.res.ok THEN [db |-> d2, res |-> r1.res]
     ELSE [db |-> d2, res |-> Ok(SQLITE_OK)]

\* commit_tnx_on_db, from the transport's answer on
commit_tnx_on_db(d, sent) ==
  LET r1 == execute_sql_and_params(d, sent)
  IN IF ~r1.res.ok THEN [db |-> r1.db, res |-> r1.res]
     ELSE [db |-> reset_txn_on_db([r1.db EXCEPT !.transaction_baton = None]),
           res |-> Ok(SQLITE_OK)]

\* ------------------------------------------------------------------------
\* HttpStrategy::send: one pass of the attempt loop
\* ------------------------------------------------------------------------
RetriableKinds == {"conn_fail", "body_fail", "non_2xx"}
TerminalKinds == {"bad_json", "embedded_error", "bad_shape"}

EmptyResponse == RemoteSqliteResponse(None, <<>>)

\* What one POST can come back with: a failure of one of the kinds, or a
\* well-formed 2xx body
HttpOutcomesOf(kinds) ==
  { [kind |-> k, body |-> EmptyResponse] : k \in kinds }
  \cup { [kind |-> "ok", body |-> r] : r \in HttpResponses }

HttpOutcomes == HttpOutcomesOf(RetriableKinds \cup TerminalKinds)

\* The answers the whole-API specification (Spec) draws from: a failure that
\* makes send return an error, and every well-formed body.  The retry loop,
\* with every kind of failure, is explored by SpecHttp.
CoreHttpOutcomes == HttpOutcomesOf({"embedded_error"})

\* last_error as the loop sets it for a retriable failure
LastError(kind) ==
  CASE kind = "conn_fail" -> <<"Request failed: ">>
    [] kind = "body_fail" -> <<"Failed to read response body: ">>
    [] OTHER -> <<"HTTP error ">>

\* The error of a 2xx answer that is not retried
TerminalError(kind) ==
  CASE kind = "bad_json" -> SqliteError_new(<<"Failed to parse JSON: ">>, Some(SQLITE_ERROR))
    [] kind = "embedded_error" -> SqliteError_new(<<"msg">>, Some(SQLITE_ERROR))
    [] OTHER -> SqliteError_new(<<"Failed to parse response: ">>, Some(SQLITE_ERROR))

HttpStart == [attempt |-> 1, last_error |-> <<>>, sleeps |-> 0]
HttpIdle == [attempt |-> 0, last_error |-> <<>>, sleeps |-> 0]

\* HttpStrategy::send sleeping only from the second failure on
HttpStrategy_send_SleepLate(h, outcome) ==
  IF outcome.kind \in RetriableKinds
  THEN IF h.attempt < MAX_ATTEMPTS
       THEN [http |-> [attempt |-> h.attempt + 1, last_error |-> LastError(outcome.kind),
                       sleeps |-> IF h.attempt > 1 THEN h.sleeps + 1 ELSE h.sleeps],
             done |-> FALSE, result |-> Ok(EmptyResponse)]
       ELSE [http |-> HttpIdle,
             done |-> TRUE,
             result |-> Err(SqliteError_new(LastError(outcome.kind), Some(SQLITE_ERROR)))]
  ELSE IF outcome.kind \in TerminalKinds
  THEN [http |-> HttpIdle, done |-> TRUE, result |-> Err(TerminalError(outcome.kind))]
  ELSE [http |-> HttpIdle, done |-> TRUE, result |-> Ok(outcome.body)]

\* HttpStrategy::send retrying a 2xx body that is not JSON or holds an error
HttpStrategy_send_RetryAll(h, outcome) ==
  IF outcome.kind \in RetriableKinds \cup {"bad_json", "embedded_error"}
  THEN IF h.attempt < MAX_ATTEMPTS
       THEN [http |-> [attempt |-> h.attempt + 1, last_error |-> LastError(outcome.kind),
                       sleeps |-> h.sleeps + 1],
             done |-> FALSE, result |-> Ok(EmptyResponse)]
       ELSE [http |-> HttpIdle,
             done |-> TRUE,
             result |-> Err(SqliteError_new(LastError(outcome.kind), Some(SQLITE_ERROR)))]
  ELSE IF outcome.kind \in TerminalKinds
  THEN [http |-> HttpIdle, done |-> TRUE, result |-> Err(TerminalError(outcome.kind))]
  ELSE [http |-> HttpIdle, done |-> TRUE, result |-> Ok(outcome.body)]

\* HttpStrategy::send with the loop running `1..=MAX_ATTEMPTS + 1`
HttpStrategy_send_OneMore(h, outcome) ==
  IF outcome.kind \in RetriableKinds
  THEN IF h.attempt < MAX_ATTEMPTS + 1
       THEN [http |-> [attempt |-> h.attempt + 1, last_error |-> LastError(outcome.kind),
                       sleeps |-> h.sleeps + 1],
             done |-> FALSE, result |-> Ok(EmptyResponse)]
       ELSE [http |-> HttpIdle,
             done |-> TRUE,
             result |-> Err(SqliteError_new(LastError(outcome.kind), Some(SQLITE_ERROR)))]
  ELSE IF outcome.kind \in TerminalKinds
  THEN [http |-> HttpIdle, done |-> TRUE, result |-> Err(TerminalError(outcome.kind))]
  ELSE [http |-> HttpIdle, done |-> TRUE, result |-> Ok(outcome.body)]

\* One iteration of `for attempt in 1..=MAX_ATTEMPTS`: the loop state afterwards
\* (the locals are gone once send has returned), whether send returned, and
\* what it returned
HttpStrategy_send(h, outcome) ==
  IF outcome.kind \in RetriableKinds
  THEN IF h.attempt < MAX_ATTEMPTS
       THEN [http |-> [attempt |-> h.attempt + 1, last_error |-> LastError(outcome.kind),
                       sleeps |-> h.sleeps + 1],
             done |-> FALSE, result |-> Ok(EmptyResponse)]
       ELSE [http |-> HttpIdle,
             done |-> TRUE,
             result |-> Err(SqliteError_new(LastError(outcome.kind), Some(SQLITE_ERROR)))]
  ELSE IF outcome.kind \in TerminalKinds
  THEN [http |-> HttpIdle, done |-> TRUE, result |-> Err(TerminalError(outcome.kind))]
  ELSE [http |-> HttpIdle, done |-> TRUE, result |-> Ok(outcome.body)]

\* ------------------------------------------------------------------------
\* WebSocketStrategy::send, as one step with the outcomes it can have
\* ------------------------------------------------------------------------
WsFailureKinds == {"disconnected", "open_stream_failed", "timeout", "server_error", "close"}

WsOutcomesOf(kinds) ==
  { [kind |-> k, result |-> QueryResult(0, <<>>)] : k \in kinds }
  \cup { [kind |-> "ok", result |-> qr] : qr \in QueryResults }

WsOutcomes == WsOutcomesOf(WsFailureKinds \cup {"write_panic"})

\* The answers the whole-API specification draws from: a failure before the
\* execute frame is written, one after it, the panic, and every result
CoreWsOutcomes == WsOutcomesOf({"open_stream_failed", "server_error", "write_panic"})

\* Whether the execute frame was written to the socket
WsFrameWritten(outcome) == outcome.kind \in {"timeout", "server_error", "close", "ok"}

\* The frames send writes to the socket, by what comes of it
WsFrames(outcome) ==
  IF outcome.kind \in {"disconnected", "connect_failed", "open_stream_failed"} THEN <<>>
  ELSE IF outcome.kind = "write_panic" THEN <<"open_stream">>
  ELSE <<"open_stream", "execute">>

WebSocketStrategy_send(outcome) ==
  CASE outcome.kind = "disconnected" ->
         Err(SqliteError_new(<<"WebSocket connection is disconnected">>, Some(SQLITE_ERROR)))
    [] outcome.kind = "open_stream_failed" ->
         Err(SqliteError_new(<<"Failed to send open_stream message: ">>, Some(SQLITE_ERROR)))
    [] outcome.kind = "timeout" ->
         Err(SqliteError_new(<<"Response timed out">>, Some(SQLITE_ERROR)))
    [] outcome.kind = "server_error" ->
         Err(SqliteError_new(<<"Remote SQLite error (code ", "): ">>, Some(SQLITE_ERROR)))
    [] outcome.kind = "close" ->
         Err(SqliteError_new(<<"Remote SQLite closed the connection unexpectedly">>, None))
    [] OTHER ->
         Ok(RemoteSqliteResponse(None, <<ExecuteResult(outcome.result)>>))

\* ------------------------------------------------------------------------
\* The WebSocketStrategy object: the writer half it keeps, the state cell it
\* consults, and the reader task connect spawns.  websocket_state is an
\* Arc<Mutex<..>>: cells are the allocations, websocket_state the one the
\* object holds, reader_state the clone the reader task captured.
\* ------------------------------------------------------------------------
WebSocketStrategy_new ==
  [websocket_handle |-> FALSE, websocket_state |-> 1, cells |-> <<"Disconnected">>,
   readers |-> <<>>]

\* *self.websocket_state.lock().await
WsState(w) == w.cells[w.websocket_state]

\* What connect can come to: connect_async fails, the hello frame cannot be
\* written, hello_ok does not arrive, or the handshake completes
ConnectOutcomes == {"connect_failed", "hello_write_failed", "hello_timeout", "ok"}

\* The error connect returns
ConnectError(outcome) ==
  SqliteError_new(IF outcome = "connect_failed"
                  THEN <<"Failed to connect to WebSocket: ">>
                  ELSE IF outcome = "hello_write_failed"
                  THEN <<"Failed to send initial message over WebSocket: ">>
                  ELSE <<"Failed to validate database URL & Token. Try again">>,
                  Some(SQLITE_ERROR))

\* The variant of connect that stores the writer half and the Connected cell
\* as soon as the hello frame is written
WebSocketStrategy_connect_StoresEarly(w, outcome) ==
  LET task == [websocket_state |-> w.websocket_state, status |-> "running",
               established |-> outcome = "ok"]
      w1 == IF outcome # "connect_failed"
            THEN [w EXCEPT !.readers = Append(w.readers, task)]
            ELSE w
  IN [wss |-> IF outcome \in {"hello_timeout", "ok"}
              THEN [w1 EXCEPT !.websocket_handle = TRUE,
                              !.cells = Append(w.cells, "Connected"),
                              !.websocket_state = Len(w.cells) + 1]
              ELSE w1,
      result |-> IF outcome = "ok" THEN Ok(EmptyResponse) ELSE Err(ConnectError(outcome)),
      frames |-> IF outcome \in {"hello_timeout", "ok"} THEN <<"hello">> ELSE <<>>]

\* connect: the reader task is spawned with a clone of the state cell held at
\* that moment; after hello_ok the object takes a fresh cell holding Connected.
\* A reader task is recorded with the cell it captured, whether it still
\* runs, and whether the handshake of its connection completed.
WebSocketStrategy_connect(w, outcome) ==
  LET task == [websocket_state |-> w.websocket_state, status |-> "running",
               established |-> outcome = "ok"]
      w1 == IF outcome # "connect_failed"
            THEN [w EXCEPT !.readers = Append(w.readers, task)]
            ELSE w
  IN [wss |-> IF outcome = "ok"
              THEN [w1 EXCEPT !.websocket_handle = TRUE,
                              !.cells = Append(w.cells, "Connected"),
                              !.websocket_state = Len(w.cells) + 1]
              ELSE w1,
      result |-> IF outcome = "ok" THEN Ok(EmptyResponse) ELSE Err(ConnectError(outcome)),
      frames |-> IF outcome \in {"hello_timeout", "ok"} THEN <<"hello">> ELSE <<>>]

\* What a reader task can read
ReaderEvents == {"close", "error", "text"}

\* Reader task i on one message: Close or a read error stores Disconnected
\* into the cell it captured and leaves the loop; anything else goes on
WebSocketStrategy_reader(w, i, event) ==
  IF event \in {"close", "error"}
  THEN [w EXCEPT !.cells[w.readers[i].websocket_state] = "Disconnected",
                 !.readers[i].status = "exited"]
  ELSE w

\* get_client
WebSocketStrategy_need_connect(w) ==
  ~w.websocket_handle \/ WsState(w) = "Disconnected"

\* send on the object: the state check, then open_stream (get_client, which
\* connects with outcome c when it needs to), then the execute frame
WebSocketStrategy_steps(w, outcome, c) ==
  IF WsState(w) = "Disconnected"
  THEN [wss |-> w, frames |-> <<>>, kind |-> "disconnected",
        result |-> Some(WebSocketStrategy_send([kind |-> "disconnected"]))]
  ELSE LET g == IF WebSocketStrategy_need_connect(w)
                THEN WebSocketStrategy_connect(w, c)
                ELSE [wss |-> w, result |-> Ok(EmptyResponse), frames |-> <<>>]
       IN IF ~g.result.ok
          THEN [wss |-> g.wss, frames |-> g.frames, kind |-> "connect_failed",
                result |-> Some(g.result)]
          ELSE [wss |-> g.wss, frames |-> g.frames \o WsFrames(outcome),
                kind |-> outcome.kind,
                result |-> IF outcome.kind = "write_panic" THEN None
                           ELSE Some(WebSocketStrategy_send(outcome))]

\* The outcomes send can have on the object as it is: the state check at its
\* head decides alone when the state it consults is Disconnected
WsOutcomesFor(w, outcomes) ==
  IF WsState(w) = "Disconnected"
  THEN { [kind |-> "disconnected", result |-> QueryResult(0, <<>>)] }
  ELSE { o \in outcomes : o.kind # "disconnected" }

\* ------------------------------------------------------------------------
\* The identifiers and the Response Bus (wss.rs)
\* ------------------------------------------------------------------------
\* The threads that send, each on a handle of its own
Tasks == {1, 2}

\* The largest i32
I32_MAX == 2147483647

\* `as i32` of a counter value below 2^32: the low 32 bits, read as signed
as_i32(v) == IF v <= I32_MAX THEN v ELSE v - I32_MAX - I32_MAX - 2

\* The variant of fetch_add that loads the counter and does not store
fetch_add_Load(counter) == [counter |-> counter, prev |-> counter]

\* AtomicU64::fetch_add(1, Relaxed): one atomic step, returning the old value
fetch_add(counter) == [counter |-> counter + 1, prev |-> counter]

\* REQUEST_ID and STREAM_ID as the process starts; requests and streams are
\* what each thread was given, in order
IdsInit ==
  [REQUEST_ID |-> 1, STREAM_ID |-> 1,
   requests |-> [t \in Tasks |-> <<>>], streams |-> [t \in Tasks |-> <<>>]]

\* next_request_id, called by thread t
next_request_id(i, t) ==
  LET f == fetch_add(i.REQUEST_ID)
  IN [ids |-> [i EXCEPT !.REQUEST_ID = f.counter,
                        !.requests[t] = Append(@, as_i32(f.prev))],
      id |-> as_i32(f.prev)]

\* next_stream_id, called by thread t
next_stream_id(i, t) ==
  LET f == fetch_add(i.STREAM_ID)
  IN [ids |-> [i EXCEPT !.STREAM_ID = f.counter,
                        !.streams[t] = Append(@, as_i32(f.prev))],
      id |-> as_i32(f.prev)]

\* The frames send, open_stream and connect write
HelloFrame == [type |-> "hello"]
OpenStreamFrame(request_id, stream_id) ==
  [type |-> "request", request_id |-> request_id,
   request |-> [type |-> "open_stream", stream_id |-> stream_id]]
\* The variant of the execute frame that names no stream
ExecuteFrame_NoStream(request_id, stream_id) ==
  [type |-> "request", request_id |-> request_id,
   request |-> [type |-> "execute", stream_id |-> 0]]

ExecuteFrame(request_id, stream_id) ==
  [type |-> "request", request_id |-> request_id,
   request |-> [type |-> "execute", stream_id |-> stream_id]]

\* The key the reader task files an inbound frame under
KeyOf(value) ==
  IF "request_id" \in DOMAIN value THEN <<"request_id", value.request_id>>
  ELSE IF "id" \in DOMAIN value THEN <<"id", value.id>>
  ELSE <<"type", value.type>>

\* What the server can answer to a frame the client wrote
AnswersTo(frame) ==
  IF frame.type = "hello"
  THEN { [type |-> "hello_ok"] }
  ELSE { [type |-> "response_ok", request_id |-> frame.request_id],
         [type |-> "response_error", request_id |-> frame.request_id] }

\* The WebSocket messages that carry an answer: its JSON text in a text frame
\* or in a binary frame
MessagesFor(frame) ==
  { [encoding |-> e, value |-> v] : e \in {"text", "binary"}, v \in AnswersTo(frame) }

\* The reader task on a message whose payload parses as JSON: the value of a
\* text frame goes on to the bus; the arm of a binary frame parses the payload
\* and ends in `continue`, so the loop takes the next message
reader_value(message) ==
  IF message.encoding = "text" THEN Some(message.value) ELSE None

\* ResponseBus::new; the map holds, per key, the sender of a oneshot channel,
\* named by the number of the wait that made it
ResponseBus_new == {}

\* The keys of a map
Keys(map) == { e.key : e \in map }

\* ResponseBus::wait_for up to the insert: HashMap::insert replaces the entry
\* of a key that is present
ResponseBus_insert(map, key, tx) ==
  { e \in map : e.key # key } \cup { [key |-> key, tx |-> tx] }

\* The variant of respond that looks the sender up and leaves it in the map
ResponseBus_respond_KeepsEntry(map, key) ==
  [map |-> map,
   sender |-> IF key \in Keys(map)
              THEN Some((CHOOSE e \in map : e.key = key).tx) ELSE None]

\* ResponseBus::respond: remove(id) under the lock of the map; the sender
\* removed, if any, is the one the value is sent on
ResponseBus_respond(map, key) ==
  [map |-> { e \in map : e.key # key },
   sender |-> IF key \in Keys(map)
              THEN Some((CHOOSE e \in map : e.key = key).tx) ELSE None]

\* A thread with its handle: nothing connected, nothing sent.  pc is where
\* the thread stands in connect or send; n, s, m are the request_id of
\* open_stream, the stream_id and the request_id of execute of the send in
\* progress (0: not allocated); wait numbers the oneshot channels made, rx is
\* what the receiver of the latest holds; wire, delivered and answered are
\* history: the frames written, the (key, sender, value) handed to a
\* receiver, and the keys whose wait returned a value; arrived is history
\* too: the (key, sender) whose answer the reader task read while the receiver
\* of that sender was waiting; lost is history as well, kept where the
\* reader task is traced and until the wait in progress ends: the key of the
\* answer the reader task read after the frame was written and before the
\* thread had registered the key, for which respond found no sender.
TaskIdle ==
  [pc |-> "idle", connected |-> FALSE, n |-> 0, s |-> 0, m |-> 0,
   map |-> ResponseBus_new, wait |-> 0, rx |-> None, wire |-> <<>>,
   delivered |-> <<>>, answered |-> {}, result |-> "none", sends |-> 0,
   connects |-> 0, arrived |-> {}, lost |-> {}]

\* The open handles two threads call into, and the calls each thread makes
Handles == {1, 2}
MaxCalls == 2

\* The statements the threads pass to sqlite3_exec
ThreadSqls == {<<"BEGIN">>, <<"COMMIT">>}

\* A thread between calls
ThreadIdle == [pc |-> "idle", h |-> 1, calls |-> 0, ret |-> SQLITE_OK, request |-> None]

\* Two handles opened over HTTP, no transaction on either
ThreadsInit ==
  [dbs |-> [h \in Handles |-> NewDb("Http")],
   open |-> [h \in Handles |-> {}],
   issued |-> {},
   th |-> [t \in Tasks |-> ThreadIdle]]

\* ------------------------------------------------------------------------
\* Dispatch on the leading keyword
\* ------------------------------------------------------------------------
\* sqlite3_step: on the upper-cased statement text
StepTask(sql) ==
  IF sql_is_begin_transaction(to_uppercase(sql)) THEN "begin"
  ELSE IF sql_is_commit(to_uppercase(sql)) THEN "commit"
  ELSE "execute_stmt"

\* sqlite3_exec: on the text as given
ExecTask(sql) ==
  IF sql_is_pragma(sql) THEN "pragma"
  ELSE IF sql_is_begin_transaction(sql) THEN "begin"
  ELSE IF sql_is_rollback(sql) THEN "rollback"
  ELSE IF sql_is_commit(sql) THEN "commit"
  ELSE "handle_execute"

\* The request a task puts on the wire
RequestOf(task, d, sql, params) ==
  IF task = "begin" THEN BatonRequest(sql)
  ELSE IF task = "commit" THEN DatabaseConnection_get_json_request(d, sql, <<>>)
  ELSE DatabaseConnection_get_json_request(d, sql, params)

\* What a task does with the transport's answer: handle, statement and result
TaskOutcome(task, d, s, sql, sent) ==
  CASE task = "begin" ->
         LET r == begin_tnx_on_db(d, HttpStrategy_get_transaction_baton(sent))
         IN [db |-> r.db, stmt |-> s, res |-> r.res]
    [] task = "commit" ->
         LET r == commit_tnx_on_db(d, sent)
         IN [db |-> r.db, stmt |-> s, res |-> r.res]
    [] task = "execute_stmt" -> execute_stmt(d, s, sent)
    [] OTHER ->
         LET r == handle_execute(d, sql, sent)
         IN [db |-> r.db, stmt |-> s, res |-> r.res]

\* ------------------------------------------------------------------------
\* State
\* ------------------------------------------------------------------------
VARIABLES
  db,        \* the SQLite3 handle: strategy, transaction_baton, transaction_has_began
  stmt,      \* the SQLite3PreparedStmt (alive = FALSE: none)
  errStack,  \* ERROR_STACK
  pc,        \* "idle", or where the call in progress is suspended: "http", "ws",
             \* "hook" (in a hook callback); "panic", "deadlock"
  call,      \* the entry point last entered: entry, sql, task, task_sql, request
  pre,       \* the handle as it was when that call was entered
  ret,       \* Some(code) once that call has returned
  wire,      \* the set of requests that call has put on the wire
  http,      \* HttpStrategy::send's loop state: attempt, last_error, sleeps
  reply,     \* history: the kind of answer the latest attempt of that call got
  visited,   \* history: the row indices sqlite3_step has returned ROW for since
             \* the statement was last executed
  srvBaton,  \* history: the baton of the latest answer send returned within the
             \* transaction that is active (None outside a transaction)
  net,       \* history, counted on the network side for the HTTP send of that
             \* call: POSTs made, retriable failures answered, sleeps taken, and
             \* what send returned ("Ok", "Err"; "none" while it has not)
  hk,        \* trigger_hook: the op it runs for, the hook slots whose lock is
             \* held, (history) how many times a callback was invoked, and the
             \* call of the callback that blocked on a held lock
  wss,       \* the WebSocketStrategy object of the handle
  wsLog,     \* history: the latest operation on that object taken by itself
  ids,       \* REQUEST_ID and STREAM_ID, and (history) what each thread was given
  bus,       \* per thread: a send in progress on its own handle, frame by frame,
             \* with the ResponseBus of that handle
  threads    \* two open handles called from two threads: the handles, each
             \* thread's call in progress, and (history) the batons of the
             \* transactions the server holds open for each handle

apiVars ==
  <<db, stmt, errStack, pc, call, pre, ret, wire, http, reply, visited, srvBaton, net, hk>>

vars ==
  <<db, stmt, errStack, pc, call, pre, ret, wire, http, reply, visited, srvBaton, net,
    hk, wss, wsLog, ids, bus, threads>>

\* The counters and the frame-level sends
busVars == <<ids, bus>>

\* Everything else
coreVars == <<apiVars, wss, wsLog>>

HookIdle == [op |-> SQLITE_OK, held |-> {}, invoked |-> 0, blocked |-> "none"]

WsLogIdle ==
  [op |-> "none", kind |-> "none", seen |-> "none", frames |-> <<>>, reader |-> 0,
   result |-> None]

\* What an answer reports of last_insert_rowid and rows_written: nothing
NoReport == [last_insert_rowid |-> None, rows_written |-> None]

NetIdle ==
  [posts |-> 0, fails |-> 0, sleeps |-> 0, result |-> "none", reported |-> NoReport]

Strategies == {"Http", "Websocket"}

Init ==
  /\ db = NoDb
  /\ stmt = NoStmt
  /\ errStack = EmptyStack
  /\ pc = "idle"
  /\ call = [entry |-> "none", sql |-> <<>>, args |-> None, task |-> "none",
             task_sql |-> <<>>, request |-> None]
  /\ pre = db
  /\ ret = Some(SQLITE_OK)
  /\ wire = {}
  /\ http = HttpIdle
  /\ reply = "none"
  /\ visited = <<>>
  /\ srvBaton = None
  /\ net = NetIdle
  /\ hk = HookIdle
  /\ wss = WebSocketStrategy_new
  /\ wsLog = WsLogIdle
  /\ ids = IdsInit
  /\ bus = [t \in Tasks |-> TaskIdle]
  /\ threads = ThreadsInit

CanFail == errStack.len < MaxErrors

\* A call that touches neither the network nor the error stack
LocalCall(entry, sql, args, code) ==
  /\ pc = "idle"
  /\ call' = [entry |-> entry, sql |-> sql, args |-> args, task |-> "none",
              task_sql |-> <<>>, request |-> None]
  /\ pre' = db
  /\ ret' = Some(code)
  /\ wire' = {}
  /\ http' = HttpIdle
  /\ reply' = "none"
  /\ net' = NetIdle
  /\ UNCHANGED <<errStack, pc, hk, wss, wsLog, busVars, threads>>

Local(entry, sql, code) == LocalCall(entry, sql, None, code)

\* The row indices visited, after a step that returned `code` and left the
\* statement as s
Visit(seen, s, code) ==
  IF code = SQLITE_ROW THEN Append(seen, Unwrap(s.current_row)) ELSE seen

\* The bridge and the tail of the entry point, once the task has its result r;
\* answer is what the transport returned, if it was asked
Complete(entry, r, answer) ==
  LET t == execute_async_task(errStack, r.res)
      it == iterate_rows(r.stmt)
  IN /\ db' = r.db
     /\ errStack' = t.stack
     /\ pc' = "idle"
     /\ IF entry = "step" /\ t.code = SQLITE_OK
        THEN stmt' = it.stmt /\ ret' = Some(it.code)
             /\ visited' = Visit(<<>>, it.stmt, it.code)
        ELSE stmt' = r.stmt /\ ret' = Some(t.code)
             /\ visited' = IF entry = "step" THEN <<>> ELSE visited
     /\ srvBaton' = IF ~r.db.transaction_has_began THEN None
                    ELSE IF IsSome(answer) /\ Unwrap(answer).ok
                            /\ IsSome(Unwrap(answer).val.baton)
                    THEN Unwrap(answer).val.baton
                    ELSE srvBaton

\* Enter a task: fail at its guard, panic, or suspend in the transport
Dispatch(entry, sql, task, task_sql, params, s1) ==
  LET busy == task = "begin" /\ begin_tnx_on_db_busy(db)
      inactive == task = "commit" /\ commit_tnx_on_db_inactive(db)
      unimplemented == task = "begin" /\ ~busy /\ db.strategy = "Websocket"
      req == RequestOf(task, db, task_sql, params)
  IN /\ pc = "idle"
     /\ CanFail
     /\ pre' = db
     /\ wire' = {}
     /\ call' = [entry |-> entry, sql |-> sql, args |-> None, task |-> task,
                 task_sql |-> task_sql,
                 request |-> IF busy \/ inactive \/ unimplemented THEN None ELSE Some(req)]
     /\ reply' = "none"
     /\ net' = NetIdle
     /\ UNCHANGED <<hk, wss, wsLog, busVars, threads>>
     /\ IF busy
        THEN Complete(entry, [db |-> db, stmt |-> s1, res |-> Err(AlreadyActiveError)], None)
             /\ http' = HttpIdle
        ELSE IF inactive
        THEN Complete(entry, [db |-> db, stmt |-> s1, res |-> Err(NoActiveError)], None)
             /\ http' = HttpIdle
        ELSE /\ stmt' = s1
             /\ ret' = None
             /\ pc' = IF unimplemented THEN "panic"
                      ELSE IF db.strategy = "Http" THEN "http" ELSE "ws"
             /\ http' = IF db.strategy = "Http" /\ ~unimplemented THEN HttpStart ELSE HttpIdle
             /\ UNCHANGED <<db, errStack, visited, srvBaton>>

\* ------------------------------------------------------------------------
\* Entry points
\* ------------------------------------------------------------------------
\* What DatabaseConnection::open can come to
OpenOutcomes == {"resolve_failed"} \cup ConnectOutcomes

\* The error DatabaseConnection::open returns: the credentials cannot be
\* resolved, or connect failed and `?` hands its error on
OpenError(outcome) ==
  IF outcome = "resolve_failed"
  THEN SqliteError_new(<<"environment variable not set">>, Some(SQLITE_CANTOPEN))
  ELSE ConnectError(outcome)

\* sqlite3_open_v2, for a handle on one of the given transports.  The call
\* record keeps the name (sql), whether credentials were resolved (task) and,
\* on the wire, the WebSocket handshake.
sqlite3_open_v2(strategies) ==
  /\ pc = "idle"
  /\ CanFail
  /\ \E filename \in Filenames :
       IF contains(filename, ":memory")
       THEN /\ call' = [entry |-> "open", sql |-> filename, args |-> None,
                        task |-> "none", task_sql |-> <<>>, request |-> None]
            /\ pre' = db
            /\ wire' = {}
            /\ http' = HttpIdle
            /\ reply' = "none"
            /\ net' = NetIdle
            /\ errStack' = push_error(errStack, <<IN_MEMORY_ERR_MSG, SQLITE_CANTOPEN>>)
            /\ ret' = Some(SQLITE_CANTOPEN)
            /\ UNCHANGED <<db, stmt, pc, visited, srvBaton, hk, wss, wsLog, busVars, threads>>
       ELSE /\ ~db.alive
            /\ \E strategy \in strategies, outcome \in OpenOutcomes :
                 LET handshake == strategy = "Websocket" /\ outcome # "resolve_failed"
                     c == IF handshake
                          THEN WebSocketStrategy_connect(WebSocketStrategy_new, outcome)
                          ELSE [wss |-> WebSocketStrategy_new, frames |-> <<>>]
                 IN /\ strategy = "Http" => outcome \in {"resolve_failed", "ok"}
                    /\ call' = [entry |-> "open", sql |-> filename,
                                args |-> Some([strategy |-> strategy]),
                                task |-> "resolve", task_sql |-> <<>>, request |-> None]
                    /\ pre' = db
                    /\ wire' = { [type |-> c.frames[i]] : i \in DOMAIN c.frames }
                    /\ http' = HttpIdle
                    /\ reply' = "none"
                    /\ net' = NetIdle
                    /\ wss' = c.wss
                    /\ IF outcome = "ok"
                       THEN /\ db' = NewDb(strategy)
                            /\ ret' = Some(SQLITE_OK)
                            /\ UNCHANGED errStack
                       ELSE /\ errStack' = push_error(errStack,
                                              <<SqliteError_fmt(OpenError(outcome)),
                                                SQLITE_CANTOPEN>>)
                            /\ ret' = Some(SQLITE_CANTOPEN)
                            /\ UNCHANGED db
                    /\ UNCHANGED <<stmt, pc, visited, srvBaton, hk, wsLog, busVars, threads>>

sqlite3_prepare_v3(sqls) ==
  /\ db.alive
  /\ ~stmt.alive
  /\ \E sql \in sqls :
       /\ Local("prepare", sql, SQLITE_OK)
       /\ stmt' = NewStmt(sql)
       /\ visited' = <<>>
       /\ UNCHANGED <<db, srvBaton>>

sqlite3_finalize ==
  /\ stmt.alive
  /\ Local("finalize", <<>>, SQLITE_OK)
  /\ stmt' = NoStmt
  /\ visited' = <<>>
  /\ UNCHANGED <<db, srvBaton>>

\* sqlite3_bind_text / _double / _int64 / _null; the call record keeps the
\* index and the value given
sqlite3_bind(calls, indices) ==
  /\ stmt.alive
  /\ \E index \in indices, b \in calls :
       LET r == sqlite3_bind_value(stmt, b, index)
       IN /\ LocalCall("bind", <<>>, Some([index |-> index, value |-> b]), r.code)
          /\ stmt' = r.stmt
          /\ UNCHANGED <<db, visited, srvBaton>>

\* sqlite3_reset: the statement afterwards
sqlite3_reset_stmt(s) ==
  [s EXCEPT !.execution_state = "Prepared", !.params = <<>>, !.result_rows = <<>>,
            !.column_names = <<>>]

sqlite3_reset ==
  /\ stmt.alive
  /\ Local("reset", <<>>, SQLITE_OK)
  /\ stmt' = sqlite3_reset_stmt(stmt)
  /\ visited' = <<>>
  /\ UNCHANGED <<db, srvBaton>>

\* sqlite3_close_v2.  A null handle (there is none) is left alone.  Otherwise
\* the transaction is reset and the Box dropped, and with it the
\* DatabaseConnection; the call record keeps the handle as it was released.
\* Statements are finalized first: one that outlives its handle holds a
\* dangling pointer.
sqlite3_close_v2 ==
  /\ pc = "idle"
  /\ ~stmt.alive
  /\ call' = [entry |-> "close", sql |-> <<>>,
              args |-> IF db.alive THEN Some([released |-> reset_txn_on_db(db)]) ELSE None,
              task |-> "none", task_sql |-> <<>>, request |-> None]
  /\ pre' = db
  /\ ret' = Some(SQLITE_OK)
  /\ wire' = {}
  /\ http' = HttpIdle
  /\ reply' = "none"
  /\ net' = NetIdle
  /\ db' = NoDb
  /\ wss' = WebSocketStrategy_new
  /\ srvBaton' = None
  /\ UNCHANGED <<stmt, errStack, pc, visited, hk, wsLog, busVars, threads>>

\* The variant that treats Done like Prepared
sqlite3_step_state_DoneRestarts(s) ==
  IF s.execution_state \in {"Prepared", "Done"}
  THEN [go |-> TRUE, stmt |-> [s EXCEPT !.execution_state = "Executing"],
        code |-> SQLITE_OK]
  ELSE IF s.execution_state = "Row"
  THEN [go |-> TRUE, stmt |-> s, code |-> SQLITE_OK]
  ELSE [go |-> FALSE, stmt |-> s, code |-> SQLITE_MISUSE]

\* The variant that treats Executing like Prepared
sqlite3_step_state_ExecutingRestarts(s) ==
  IF s.execution_state \in {"Prepared", "Executing"}
  THEN [go |-> TRUE, stmt |-> [s EXCEPT !.execution_state = "Executing"],
        code |-> SQLITE_OK]
  ELSE IF s.execution_state = "Row"
  THEN [go |-> TRUE, stmt |-> s, code |-> SQLITE_OK]
  ELSE IF s.execution_state = "Done"
  THEN [go |-> FALSE, stmt |-> s, code |-> SQLITE_DONE]
  ELSE [go |-> FALSE, stmt |-> s, code |-> SQLITE_MISUSE]

\* sqlite3_step, the match on the execution state: whether the call goes on,
\* the statement then, and the code returned when it does not
sqlite3_step_state(s) ==
  IF s.execution_state = "Prepared"
  THEN [go |-> TRUE, stmt |-> [s EXCEPT !.execution_state = "Executing"],
        code |-> SQLITE_OK]
  ELSE IF s.execution_state = "Row"
  THEN [go |-> TRUE, stmt |-> s, code |-> SQLITE_OK]
  ELSE IF s.execution_state = "Done"
  THEN [go |-> FALSE, stmt |-> s, code |-> SQLITE_DONE]
  ELSE [go |-> FALSE, stmt |-> s, code |-> SQLITE_MISUSE]

\* sqlite3_step; when it returns without executing, the call record keeps the
\* execution state it found
sqlite3_step ==
  /\ stmt.alive
  /\ LET m == sqlite3_step_state(stmt)
         found == Some([state |-> stmt.execution_state])
         needs_execution == Len(m.stmt.result_rows) = 0
         it == iterate_rows(m.stmt)
     IN IF ~m.go
        THEN /\ LocalCall("step", stmt.sql, found, m.code)
             /\ stmt' = m.stmt
             /\ UNCHANGED <<db, visited, srvBaton>>
        ELSE IF needs_execution
        THEN Dispatch("step", stmt.sql, StepTask(stmt.sql),
                      IF StepTask(stmt.sql) = "execute_stmt"
                      THEN stmt.sql ELSE to_uppercase(stmt.sql),
                      convert_params_to_json(stmt.params), m.stmt)
        ELSE /\ LocalCall("step", stmt.sql, found, it.code)
             /\ stmt' = it.stmt
             /\ visited' = Visit(visited, it.stmt, it.code)
             /\ UNCHANGED <<db, srvBaton>>

sqlite3_exec(sqls) ==
  /\ db.alive
  /\ \E sql \in sqls :
    IF ExecTask(sql) = "pragma"
    THEN Local("exec", sql, SQLITE_OK) /\ UNCHANGED <<db, stmt, visited, srvBaton>>
    ELSE IF ExecTask(sql) = "rollback"
    THEN /\ Local("exec", sql, SQLITE_OK)
         /\ db' = reset_txn_on_db(db)
         /\ srvBaton' = None
         /\ UNCHANGED <<stmt, visited>>
    ELSE Dispatch("exec", sql, ExecTask(sql), sql, <<>>, stmt)

\* ------------------------------------------------------------------------
\* The transport answers
\* ------------------------------------------------------------------------
\* What the first result of a response reports
Reported(response) ==
  IF Len(response.results) > 0 /\ response.results[1].type = "execute"
  THEN [last_insert_rowid |-> response.results[1].result.last_insert_rowid,
        rows_written |-> response.results[1].result.rows_written]
  ELSE NoReport

\* One attempt of HttpStrategy::send and, when send returns, the rest of the call
HttpAttempt(outcomes) ==
  /\ pc = "http"
  /\ \E outcome \in outcomes :
       LET a == HttpStrategy_send(http, outcome)
       IN /\ wire' = wire \cup {Unwrap(call.request)}
          /\ http' = a.http
          /\ reply' = outcome.kind
          /\ net' = [posts |-> net.posts + 1,
                     fails |-> net.fails + (IF outcome.kind \in RetriableKinds THEN 1 ELSE 0),
                     sleeps |-> IF a.done THEN net.sleeps ELSE a.http.sleeps,
                     result |-> IF ~a.done THEN "none"
                                ELSE IF a.result.ok THEN "Ok" ELSE "Err",
                     reported |-> IF a.done /\ a.result.ok THEN Reported(a.result.val)
                                  ELSE NoReport]
          /\ IF a.done
             THEN Complete(call.entry,
                           TaskOutcome(call.task, db, stmt, call.task_sql, a.result),
                           Some(a.result))
             ELSE UNCHANGED <<db, stmt, errStack, pc, ret, visited, srvBaton>>
          /\ UNCHANGED <<call, pre, hk, wss, wsLog, busVars, threads>>

\* The variant in which a failed WebSocket send is followed, within the same
\* call, by the same statement over HTTP
WsSend_ResendsOverHttp(outcomes) ==
  /\ pc = "ws"
  /\ \E outcome \in WsOutcomesFor(wss, outcomes) :
       /\ wire' = IF WsFrameWritten(outcome) THEN wire \cup {Unwrap(call.request)} ELSE wire
       /\ reply' = outcome.kind
       /\ IF outcome.kind = "write_panic"
          THEN pc' = "panic" /\ UNCHANGED <<db, stmt, errStack, ret, visited, srvBaton, http>>
          ELSE IF ~WebSocketStrategy_send(outcome).ok
          THEN /\ db' = [db EXCEPT !.strategy = "Http"]
               /\ pc' = "http"
               /\ http' = HttpStart
               /\ UNCHANGED <<stmt, errStack, ret, visited, srvBaton>>
          ELSE /\ Complete(call.entry,
                           TaskOutcome(call.task, db, stmt, call.task_sql,
                                       WebSocketStrategy_send(outcome)),
                           Some(WebSocketStrategy_send(outcome)))
               /\ UNCHANGED http
       /\ UNCHANGED <<call, pre, net, hk, wss, wsLog, busVars, threads>>

\* WebSocketStrategy::send and the rest of the call
WsSend(outcomes) ==
  /\ pc = "ws"
  /\ \E outcome \in WsOutcomesFor(wss, outcomes) :
       /\ wire' = IF WsFrameWritten(outcome) THEN wire \cup {Unwrap(call.request)} ELSE wire
       /\ reply' = outcome.kind
       /\ IF outcome.kind = "write_panic"
          THEN pc' = "panic" /\ UNCHANGED <<db, stmt, errStack, ret, visited, srvBaton>>
          ELSE Complete(call.entry,
                        TaskOutcome(call.task, db, stmt, call.task_sql,
                                    WebSocketStrategy_send(outcome)),
                        Some(WebSocketStrategy_send(outcome)))
       /\ UNCHANGED <<call, pre, http, net, hk, wss, wsLog, busVars, threads>>

Next ==
  \/ sqlite3_open_v2(Strategies)
  \/ sqlite3_prepare_v3(PrepareSqls)
  \/ sqlite3_finalize
  \/ sqlite3_bind(CoreBindCalls, 0..2)
  \/ sqlite3_reset
  \/ sqlite3_step
  \/ sqlite3_exec(ExecSqls)
  \/ sqlite3_close_v2
  \/ HttpAttempt(CoreHttpOutcomes)
  \/ WsSend(CoreWsOutcomes)

Spec == Init /\ [][Next]_vars

\* The retry loop of HttpStrategy::send on its own: a handle opened on the
\* HTTP transport, driven through sqlite3_exec, with every kind of failure and
\* the well-formed bodies that differ for sqlite3_exec (a result, an error).
LoopHttpOutcomes ==
  { o \in HttpOutcomes :
      o.kind = "ok" =>
        o.body.results \in {<<ExecuteResult(QueryResult(1, <<"c">>))>>, <<ErrorResult>>} }

InitHttp == Init

NextHttp ==
  \/ sqlite3_open_v2({"Http"})
  \/ sqlite3_exec(ExecSqls)
  \/ HttpAttempt(LoopHttpOutcomes)

SpecHttp == InitHttp /\ [][NextHttp]_vars

\* send is polled until it returns: block_on drives the task to completion
SpecHttpFair == SpecHttp /\ WF_vars(HttpAttempt(LoopHttpOutcomes))

\* The hooks on their own: a handle on the HTTP transport; register_hook
\* called with every op and sqlite3_update_hook; INSERT, UPDATE, DELETE and
\* SELECT run through sqlite3_exec; trigger_hook called on the handle, with a
\* callback that may call register_hook or trigger_hook on the same handle.
RegisterHook ==
  /\ db.alive
  /\ \E op \in HookOps, g \in Registrations :
       LET r == register_hook(db, op, g.callback, g.user_data)
       IN /\ LocalCall("register_hook", <<>>,
                       Some([op |-> op, callback |-> g.callback, user_data |-> g.user_data]),
                       r.code)
          /\ db' = r.db
          /\ UNCHANGED <<stmt, visited, srvBaton>>

\* sqlite3_update_hook; on a null handle it returns CANTOPEN
sqlite3_update_hook ==
  \E g \in Registrations :
    LET r == IF db.alive THEN register_hook(db, SQLITE_UPDATE, g.callback, g.user_data)
             ELSE [db |-> db, code |-> SQLITE_CANTOPEN]
    IN /\ LocalCall("update_hook", <<>>,
                    Some([op |-> SQLITE_UPDATE, callback |-> g.callback,
                          user_data |-> g.user_data]),
                    r.code)
       /\ db' = r.db
       /\ UNCHANGED <<stmt, visited, srvBaton>>

\* SQLite3::trigger_hook up to the callback: it takes the lock of the slot of
\* op and, when the slot holds a callback, calls it with the lock still held
\* (the guard `hook` lives to the end of the function).  An op without a slot
\* and an empty slot return at once.
trigger_hook ==
  /\ pc = "idle"
  /\ db.alive
  /\ hk.invoked < MaxInvocations
  /\ \E op \in HookOps :
       LET slot == hook_of(db, op)
           found == slot[2] /\ IsSome(slot[1])
       IN /\ call' = [entry |-> "trigger_hook", sql |-> <<>>, args |-> Some([op |-> op]),
                      task |-> "none", task_sql |-> <<>>, request |-> None]
          /\ pre' = db
          /\ pc' = IF found THEN "hook" ELSE "idle"
          /\ ret' = IF found THEN None ELSE Some(SQLITE_OK)
          /\ hk' = IF found
                   THEN [hk EXCEPT !.op = op, !.held = {op}, !.invoked = hk.invoked + 1]
                   ELSE hk
          /\ wire' = {}
          /\ http' = HttpIdle
          /\ reply' = "none"
          /\ net' = NetIdle
          /\ UNCHANGED <<db, stmt, errStack, visited, srvBaton, wss, wsLog, busVars, threads>>

\* The callback returns: trigger_hook drops the guard and returns
CallbackReturns ==
  /\ pc = "hook"
  /\ pc' = "idle"
  /\ ret' = Some(SQLITE_OK)
  /\ hk' = [hk EXCEPT !.held = {}]
  /\ UNCHANGED <<db, stmt, errStack, call, pre, wire, http, reply, visited, srvBaton,
                 net, wss, wsLog, busVars, threads>>

\* The callback calls register_hook on the handle.  On the slot whose lock
\* trigger_hook holds, lock() is called by the thread that holds the lock:
\* std::sync::Mutex leaves the outcome open between never returning and a
\* panic.  On another slot, or with an op that has none, it returns.
CallbackRegisters ==
  /\ pc = "hook"
  /\ \E op \in HookOps, g \in Registrations :
       IF op \in hk.held
       THEN /\ pc' \in {"deadlock", "panic"}
            /\ hk' = [hk EXCEPT !.blocked = "register_hook"]
            /\ UNCHANGED db
       ELSE /\ db' = register_hook(db, op, g.callback, g.user_data).db
            /\ UNCHANGED <<pc, hk>>
  /\ UNCHANGED <<stmt, errStack, call, pre, ret, wire, http, reply, visited, srvBaton,
                 net, wss, wsLog, busVars, threads>>

\* The callback calls trigger_hook on the handle for the op it was called
\* with: lock() on the lock the thread holds
CallbackTriggers ==
  /\ pc = "hook"
  /\ hk.op \in hk.held
  /\ pc' \in {"deadlock", "panic"}
  /\ hk' = [hk EXCEPT !.blocked = "trigger_hook"]
  /\ UNCHANGED <<db, stmt, errStack, call, pre, ret, wire, http, reply, visited,
                 srvBaton, net, wss, wsLog, busVars, threads>>

HookSqls == { <<"INSERT">>, <<"UPDATE">>, <<"DELETE">>, <<"SELECT">> }

HookHttpOutcomes ==
  { [kind |-> "ok", body |-> RemoteSqliteResponse(None, <<ExecuteResult(WriteResult(None, Some(1)))>>)],
    [kind |-> "ok", body |-> RemoteSqliteResponse(None, <<ErrorResult>>)],
    [kind |-> "embedded_error", body |-> EmptyResponse] }

InitHooks == Init

NextHooks ==
  \/ sqlite3_open_v2({"Http"})
  \/ RegisterHook
  \/ sqlite3_update_hook
  \/ sqlite3_exec(HookSqls)
  \/ HttpAttempt(HookHttpOutcomes)
  \/ trigger_hook
  \/ CallbackReturns
  \/ CallbackRegisters
  \/ CallbackTriggers

SpecHooks == InitHooks /\ [][NextHooks]_vars

\* Writes on their own: a handle on the HTTP transport, INSERT through
\* sqlite3_exec, answered with every combination of what a server reports,
\* with an error, or not at all
WriteSqls == { <<"INSERT">> }

WriteHttpOutcomes ==
  { [kind |-> "ok", body |-> RemoteSqliteResponse(None, <<ExecuteResult(qr)>>)] :
      qr \in WriteResults }
  \cup { [kind |-> "ok", body |-> RemoteSqliteResponse(None, <<ErrorResult>>)],
         [kind |-> "embedded_error", body |-> EmptyResponse] }

InitWrites == Init

NextWrites ==
  \/ sqlite3_open_v2({"Http"})
  \/ sqlite3_exec(WriteSqls)
  \/ HttpAttempt(WriteHttpOutcomes)

SpecWrites == InitWrites /\ [][NextWrites]_vars

\* Binding on its own: statements with 0, 1 and 2 parameters on an open
\* handle, every bind entry point, indices on both sides of the range
BindSqls == { <<"SELECT">>, <<"SELECT", "?">>, <<"SELECT", "?", "?">> }

BindIndices == -1 .. 3

InitBind == Init

NextBind ==
  \/ sqlite3_open_v2({"Http"})
  \/ sqlite3_prepare_v3(BindSqls)
  \/ sqlite3_bind(BindCalls, BindIndices)
  \/ sqlite3_reset
  \/ sqlite3_finalize

SpecBind == InitBind /\ [][NextBind]_vars

\* The WebSocketStrategy object on its own, from WebSocketStrategy::new: its
\* two public operations and its reader task

WsConnect ==
  /\ Len(wss.readers) < MaxConnects
  /\ \E c \in ConnectOutcomes :
       LET r == WebSocketStrategy_connect(wss, c)
       IN /\ wss' = r.wss
          /\ wsLog' = [op |-> "connect", kind |-> c, seen |-> WsState(wss),
                       frames |-> r.frames, reader |-> 0, result |-> Some(r.result)]
  /\ UNCHANGED <<apiVars, busVars, threads>>

WsObjectSend ==
  /\ \E outcome \in WsOutcomes, c \in ConnectOutcomes :
       LET r == WebSocketStrategy_steps(wss, outcome, c)
       IN /\ wss' = r.wss
          /\ wsLog' = [op |-> "send", kind |-> r.kind, seen |-> WsState(wss),
                       frames |-> r.frames, reader |-> 0,
                       result |-> r.result]
  /\ UNCHANGED <<apiVars, busVars, threads>>

WsReader ==
  /\ \E i \in DOMAIN wss.readers, event \in ReaderEvents :
       /\ wss.readers[i].status = "running"
       /\ wss' = WebSocketStrategy_reader(wss, i, event)
       /\ wsLog' = [op |-> "reader", kind |-> event, seen |-> WsState(wss),
                    frames |-> <<>>, reader |-> i, result |-> None]
  /\ UNCHANGED <<apiVars, busVars, threads>>

InitWs == Init

NextWs ==
  \/ WsConnect
  \/ WsObjectSend
  \/ WsReader

SpecWs == InitWs /\ [][NextWs]_vars

\* The WebSocket sends frame by frame: each thread connects its handle
\* (hello, hello_ok) and sends on it; the reader task of the handle files
\* what the server answers on the Response Bus; the two counters are shared.
MaxSends == 1

\* The key a thread registers at its position
WaitKey(b) ==
  CASE b.pc \in {"reg_hello", "wait_hello"} -> <<"type", "hello_ok">>
    [] b.pc \in {"reg_open", "wait_open"} -> <<"request_id", b.n>>
    [] b.pc \in {"reg_exec", "wait_exec"} -> <<"request_id", b.m>>

Waiting(b) == b.pc \in {"wait_hello", "wait_open", "wait_exec"}

\* The frame is written and wait_for has not yet inserted the key
Registering(b) == b.pc \in {"reg_hello", "reg_open", "reg_exec"}

\* connect up to the hello frame: the socket is open, the reader task runs
BusConnect(t) ==
  /\ bus[t].pc = "idle"
  /\ ~bus[t].connected
  /\ bus[t].connects < MaxConnects
  /\ bus' = [bus EXCEPT ![t].wire = Append(@, HelloFrame), ![t].pc = "reg_hello",
                        ![t].result = "none", ![t].connects = @ + 1]
  /\ UNCHANGED <<ids, coreVars, threads>>

\* send up to open_stream: the state check, get_client, the request_id
BusSend(t) ==
  /\ bus[t].pc = "idle"
  /\ bus[t].connected
  /\ bus[t].sends < MaxSends
  /\ LET r == next_request_id(ids, t)
     IN /\ ids' = r.ids
        /\ bus' = [bus EXCEPT ![t].pc = "alloc_stream", ![t].n = r.id, ![t].s = 0,
                              ![t].m = 0, ![t].result = "none",
                              ![t].sends = @ + 1]
  /\ UNCHANGED <<coreVars, threads>>

\* open_stream: the stream_id
BusAllocStream(t) ==
  /\ bus[t].pc = "alloc_stream"
  /\ LET r == next_stream_id(ids, t)
     IN /\ ids' = r.ids
        /\ bus' = [bus EXCEPT ![t].pc = "write_open", ![t].s = r.id]
  /\ UNCHANGED <<coreVars, threads>>

\* open_stream: the frame is written, or the write fails and send returns Err
BusWriteOpen(t) ==
  /\ bus[t].pc = "write_open"
  /\ \/ bus' = [bus EXCEPT ![t].wire = Append(@, OpenStreamFrame(bus[t].n, bus[t].s)),
                           ![t].pc = "reg_open"]
     \/ bus' = [bus EXCEPT ![t].pc = "idle", ![t].result = "Err"]
  /\ UNCHANGED <<ids, coreVars, threads>>

\* wait_for: a new oneshot channel, its sender inserted under the key
BusRegister(t) ==
  /\ bus[t].pc \in {"reg_hello", "reg_open", "reg_exec"}
  /\ bus' = [bus EXCEPT
       ![t].map = ResponseBus_insert(@, WaitKey(bus[t]), bus[t].wait + 1),
       ![t].wait = @ + 1,
       ![t].rx = None,
       ![t].pc = CASE bus[t].pc = "reg_hello" -> "wait_hello"
                   [] bus[t].pc = "reg_open" -> "wait_open"
                   [] bus[t].pc = "reg_exec" -> "wait_exec"]
  /\ UNCHANGED <<ids, coreVars, threads>>

\* wait_for returns the value its receiver holds; connect, open_stream and
\* send go on from there
BusReceive(t) ==
  /\ Waiting(bus[t])
  /\ IsSome(bus[t].rx)
  /\ bus' = [bus EXCEPT
       ![t].answered = @ \cup {WaitKey(bus[t])},
       ![t].rx = None,
       ![t].lost = {},
       ![t].connected = @ \/ bus[t].pc = "wait_hello",
       ![t].pc = IF bus[t].pc = "wait_open" THEN "alloc_exec" ELSE "idle",
       ![t].result = CASE bus[t].pc = "wait_open" -> "none"
                       [] bus[t].pc = "wait_hello" -> "Ok"
                       [] bus[t].pc = "wait_exec" ->
                            IF Unwrap(bus[t].rx).type = "response_ok"
                            THEN "Ok" ELSE "Err"]
  /\ UNCHANGED <<ids, coreVars, threads>>

\* wait_for times out: the caller returns Err; the entry stays in the map
BusTimeout(t) ==
  /\ Waiting(bus[t])
  /\ bus[t].rx = None
  /\ bus' = [bus EXCEPT ![t].pc = "idle", ![t].result = "Err", ![t].lost = {}]
  /\ UNCHANGED <<ids, coreVars, threads>>

\* send after open_stream: the request_id of the execute frame
BusAllocExec(t) ==
  /\ bus[t].pc = "alloc_exec"
  /\ LET r == next_request_id(ids, t)
     IN /\ ids' = r.ids
        /\ bus' = [bus EXCEPT ![t].pc = "write_exec", ![t].m = r.id]
  /\ UNCHANGED <<coreVars, threads>>

\* send: the execute frame is written, or the write fails and unwrap panics
BusWriteExec(t) ==
  /\ bus[t].pc = "write_exec"
  /\ \/ bus' = [bus EXCEPT ![t].wire = Append(@, ExecuteFrame(bus[t].m, bus[t].s)),
                           ![t].pc = "reg_exec"]
     \/ bus' = [bus EXCEPT ![t].pc = "panic", ![t].result = "panic"]
  /\ UNCHANGED <<ids, coreVars, threads>>

\* The reader task of handle t reads an answer of the server to a frame on
\* the wire and calls respond: the sender removed gets the value, which
\* reaches its receiver if that is still the one waited on
ReaderResponds(t, traced) ==
  /\ \E i \in DOMAIN bus[t].wire :
       \E message \in MessagesFor(bus[t].wire[i]) :
         LET key == KeyOf(message.value)
             parsed == reader_value(message)
             r == IF IsSome(parsed)
                  THEN ResponseBus_respond(bus[t].map, KeyOf(Unwrap(parsed)))
                  ELSE [map |-> bus[t].map, sender |-> None]
             live == /\ IsSome(r.sender)
                     /\ Waiting(bus[t])
                     /\ Unwrap(r.sender) = bus[t].wait
             awaited == /\ Waiting(bus[t])
                        /\ [key |-> key, tx |-> bus[t].wait] \in bus[t].map
             early == /\ IsSome(parsed)
                      /\ ~IsSome(r.sender)
                      /\ Registering(bus[t])
                      /\ key = WaitKey(bus[t])
         IN bus' = [bus EXCEPT
              ![t].map = r.map,
              ![t].rx = IF live THEN parsed ELSE @,
              ![t].delivered =
                 IF live
                 THEN Append(@, [key |-> KeyOf(Unwrap(parsed)), tx |-> Unwrap(r.sender),
                                 value |-> Unwrap(parsed)])
                 ELSE @,
              ![t].arrived =
                 IF awaited THEN @ \cup {[key |-> key, tx |-> bus[t].wait]} ELSE @,
              ![t].lost = IF traced /\ early THEN @ \cup {key} ELSE @]
  /\ UNCHANGED <<ids, coreVars, threads>>

BusRespond(t) == ReaderResponds(t, FALSE)

InitBus == Init

NextBus ==
  \E t \in Tasks :
    \/ BusConnect(t)
    \/ BusSend(t)
    \/ BusAllocStream(t)
    \/ BusWriteOpen(t)
    \/ BusRegister(t)
    \/ BusReceive(t)
    \/ BusTimeout(t)
    \/ BusAllocExec(t)
    \/ BusWriteExec(t)
    \/ BusRespond(t)

SpecBus == InitBus /\ [][NextBus]_vars

\* The same sends, with the history of the answers read between the write of
\* a frame and the registration of its key kept (lost)
BusRespondTraced(t) == ReaderResponds(t, TRUE)

InitRace == Init

NextRace ==
  \E t \in Tasks :
    \/ BusConnect(t)
    \/ BusSend(t)
    \/ BusAllocStream(t)
    \/ BusWriteOpen(t)
    \/ BusRegister(t)
    \/ BusReceive(t)
    \/ BusTimeout(t)
    \/ BusAllocExec(t)
    \/ BusWriteExec(t)
    \/ BusRespondTraced(t)

SpecRace == InitRace /\ [][NextRace]_vars

\* Two threads calling sqlite3_exec on two open handles, either thread on
\* either handle.  A call checks transaction_has_began, builds its request
\* and awaits the transport; the answer is handled when it arrives.

\* sqlite3_exec by thread t, up to the await on the transport
ThreadExec(t) ==
  /\ threads.th[t].pc = "idle"
  /\ threads.th[t].calls < MaxCalls
  /\ \E h \in Handles, sql \in ThreadSqls :
       LET d == threads.dbs[h]
           task == ExecTask(sql)
           refused == \/ task = "begin" /\ begin_tnx_on_db_busy(d)
                      \/ task = "commit" /\ commit_tnx_on_db_inactive(d)
           r == execute_async_task(errStack,
                                   Err(IF task = "begin" THEN AlreadyActiveError
                                       ELSE NoActiveError))
       IN IF refused
          THEN /\ errStack' = r.stack
               /\ threads' = [threads EXCEPT !.th[t] =
                                [pc |-> "idle", h |-> h, calls |-> @.calls + 1,
                                 ret |-> r.code, request |-> None]]
          ELSE /\ threads' = [threads EXCEPT !.th[t] =
                                [pc |-> task, h |-> h, calls |-> @.calls + 1,
                                 ret |-> @.ret,
                                 request |-> Some(RequestOf(task, d, sql, <<>>))]]
               /\ UNCHANGED errStack
  /\ UNCHANGED <<db, stmt, pc, call, pre, ret, wire, http, reply, visited, srvBaton, net,
                 hk, wss, wsLog, busVars>>

\* What the server answers a BEGIN with: a baton it has not issued before,
\* or a failure
BeginAnswers ==
  { Ok(RemoteSqliteResponse(Some(b), <<ExecuteResult(QueryResult(0, <<>>))>>)) :
      b \in Batons \ threads.issued }
  \cup { Err(TerminalError("embedded_error")) }

\* begin_tnx_on_db of thread t from get_transaction_baton's answer on
ThreadBegin(t) ==
  /\ threads.th[t].pc = "begin"
  /\ \E sent \in BeginAnswers :
       LET h == threads.th[t].h
           r == begin_tnx_on_db(threads.dbs[h], HttpStrategy_get_transaction_baton(sent))
           e == execute_async_task(errStack, r.res)
           got == IF sent.ok THEN {Unwrap(sent.val.baton)} ELSE {}
       IN /\ errStack' = e.stack
          /\ threads' = [threads EXCEPT !.dbs[h] = r.db,
                                        !.open[h] = @ \cup got,
                                        !.issued = @ \cup got,
                                        !.th[t].pc = "idle",
                                        !.th[t].ret = e.code,
                                        !.th[t].request = None]
  /\ UNCHANGED <<db, stmt, pc, call, pre, ret, wire, http, reply, visited, srvBaton, net,
                 hk, wss, wsLog, busVars>>

\* What the server answers a COMMIT with
CommitAnswers ==
  { Ok(RemoteSqliteResponse(None, <<ExecuteResult(QueryResult(0, <<>>))>>)),
    Err(TerminalError("embedded_error")) }

\* commit_tnx_on_db of thread t from the transport's answer on; a COMMIT the
\* server accepted ends the transaction of the baton the request carried
ThreadCommit(t) ==
  /\ threads.th[t].pc = "commit"
  /\ \E sent \in CommitAnswers :
       LET h == threads.th[t].h
           request == Unwrap(threads.th[t].request)
           r == commit_tnx_on_db(threads.dbs[h], sent)
           e == execute_async_task(errStack, r.res)
           ended == IF sent.ok /\ "baton" \in DOMAIN request /\ IsSome(request.baton)
                    THEN {Unwrap(request.baton)} ELSE {}
       IN /\ errStack' = e.stack
          /\ threads' = [threads EXCEPT !.dbs[h] = r.db,
                                        !.open[h] = @ \ ended,
                                        !.th[t].pc = "idle",
                                        !.th[t].ret = e.code,
                                        !.th[t].request = None]
  /\ UNCHANGED <<db, stmt, pc, call, pre, ret, wire, http, reply, visited, srvBaton, net,
                 hk, wss, wsLog, busVars>>

InitThreads == Init

NextThreads ==
  \/ \E t \in Tasks : ThreadExec(t)
  \/ \E t \in Tasks : ThreadBegin(t)
  \/ \E t \in Tasks : ThreadCommit(t)

SpecThreads == InitThreads /\ [][NextThreads]_vars

TypeOK ==
  /\ pc \in {"idle", "http", "ws", "panic", "hook", "deadlock"}
  /\ hk.op \in HookOps
  /\ ids.REQUEST_ID \in 1..I32_MAX
  /\ ids.STREAM_ID \in 1..I32_MAX
  /\ \A t \in Tasks :
       /\ bus[t].pc \in {"idle", "reg_hello", "wait_hello", "alloc_stream", "write_open",
                         "reg_open", "wait_open", "alloc_exec", "write_exec",
                         "reg_exec", "wait_exec", "panic"}
       /\ bus[t].connected \in BOOLEAN
       /\ bus[t].sends \in 0..MaxSends
       /\ bus[t].connects \in 0..MaxConnects
       /\ bus[t].result \in {"none", "Ok", "Err", "panic"}
       /\ \A e \in bus[t].map : e.tx \in 1..bus[t].wait
  /\ hk.held \subseteq {SQLITE_UPDATE, SQLITE_INSERT, SQLITE_DELETE}
  /\ hk.invoked \in 0..MaxInvocations
  /\ hk.blocked \in {"none", "register_hook", "trigger_hook"}
  /\ \A o \in HookOps : hook_of(db, o)[1] \in {None, Some(<<"cb1", "u1">>), Some(<<"cb2", "u2">>)}
  /\ db.strategy \in Strategies
  /\ db.transaction_baton \in OptBatons
  /\ db.transaction_has_began \in BOOLEAN
  /\ http.attempt \in 0..MAX_ATTEMPTS
  /\ errStack.len \in 0..(MaxErrors + Cardinality(Tasks) * MaxCalls)
  /\ \A h \in Handles :
       /\ threads.dbs[h].transaction_baton \in OptBatons
       /\ threads.dbs[h].transaction_has_began \in BOOLEAN
       /\ threads.open[h] \subseteq threads.issued
  /\ threads.issued \subseteq Batons
  /\ \A t \in Tasks :
       /\ threads.th[t].pc \in {"idle", "begin", "commit"}
       /\ threads.th[t].h \in Handles
       /\ threads.th[t].calls \in 0..MaxCalls
       /\ threads.th[t].pc = "idle" <=> threads.th[t].request = None
       /\ IsFiniteSet(bus[t].arrived)
       /\ bus[t].lost \subseteq { KeyOf(m.value) : m \in UNION { MessagesFor(bus[t].wire[i]) : i \in DOMAIN bus[t].wire } }
  /\ srvBaton \in OptBatons
  /\ Len(visited) <= MaxRows
  /\ (pc = "idle") = IsSome(ret)
  /\ db.alive \in BOOLEAN
  /\ db.last_insert_rowid \in {None, Some(0), Some(7), Some(12)}
  /\ db.rows_written \in {None, Some(1), Some(2)}
  /\ net.posts \in 0..MAX_ATTEMPTS
  /\ net.fails \in 0..MAX_ATTEMPTS
  /\ net.result \in {"none", "Ok", "Err"}
  /\ wss.websocket_handle \in BOOLEAN
  /\ wss.websocket_state \in DOMAIN wss.cells
  /\ \A i \in DOMAIN wss.cells : wss.cells[i] \in {"Connected", "Disconnected"}
  /\ \A i \in DOMAIN wss.readers :
       /\ wss.readers[i].websocket_state \in DOMAIN wss.cells
       /\ wss.readers[i].status \in {"running", "exited"}
  /\ wsLog.op \in {"none", "connect", "send", "reader"}
  /\ stmt.alive => \A i \in DOMAIN stmt.params : i \in 1..stmt.param_count

\* ------------------------------------------------------------------------
\* Vocabulary of the properties
\* ------------------------------------------------------------------------
\* No call is in progress
Idle == pc = "idle"

\* The row indices 0 .. n-1 in order
RowsUpTo(n) == [i \in 1..n |-> i - 1]

\* The call that returned last failed: a code other than OK, ROW and DONE
ReturnedError ==
  Idle /\ Unwrap(ret) \notin {SQLITE_OK, SQLITE_ROW, SQLITE_DONE}

\* The call that returned last succeeded
ReturnedSuccess ==
  Idle /\ Unwrap(ret) \in {SQLITE_OK, SQLITE_ROW, SQLITE_DONE}

\* The entry of ERROR_STACK that sqlite3_errmsg / sqlite3_extended_errcode read
Pushed(error) == get_latest_error(errStack) = Some(<<SqliteError_fmt(error), error.code>>)

\* The parts of a request, on either transport
Steps(r) == IF "requests" \in DOMAIN r THEN r.requests ELSE <<r>>
HasClose(r) == \E i \in DOMAIN Steps(r) : Steps(r)[i].type = "close"
HasBaton(r) == "baton" \in DOMAIN r
IsExecuteOf(step, sql) ==
  step.type = "execute" /\ step.stmt.sql = sql /\ "args" \in DOMAIN step.stmt

\* The last call built a statement request (through get_json_request)
BuiltRequest ==
  call.task \in {"commit", "execute_stmt", "handle_execute"} /\ IsSome(call.request)

\* ------------------------------------------------------------------------
\* Properties
\* ------------------------------------------------------------------------
\* C1: in every execution of a prepared statement, whatever state it was
\* reset from, sqlite3_step returns ROW once per row of the result set, on the
\* rows 0, 1, .., N-1 in that order, and DONE after the last one: whenever
\* step has returned ROW the rows visited are 0 .. k-1 for some k <= N, and
\* whenever it has returned DONE they are 0 .. N-1.
C1_RowsVisitedInOrder ==
  (Idle /\ stmt.alive /\ call.entry = "step") =>
    /\ (ret = Some(SQLITE_ROW) =>
          /\ Len(visited) <= Len(stmt.result_rows)
          /\ visited = RowsUpTo(Len(visited))
          /\ stmt.current_row = Some(Len(visited) - 1))
    /\ (ret = Some(SQLITE_DONE) => visited = RowsUpTo(Len(stmt.result_rows)))

\* C2: once sqlite3_reset has returned, the statement has no parameters, no
\* result rows, no cursor, no column names, and is in state Prepared.
C2_ResetClearsStatement ==
  (Idle /\ call.entry = "reset") =>
    /\ stmt.params = <<>>
    /\ stmt.result_rows = <<>>
    /\ stmt.current_row = None
    /\ stmt.column_names = <<>>
    /\ stmt.execution_state = "Prepared"

\* C3: whenever no call is in progress, a baton is stored on the handle
\* exactly when transaction_has_began is set, and sqlite3_get_autocommit
\* returns 0 exactly when a baton is stored.
C3_BatonIffTransaction ==
  Idle =>
    /\ IsSome(db.transaction_baton) <=> db.transaction_has_began
    /\ (sqlite3_get_autocommit(db) = 0) <=> IsSome(db.transaction_baton)

\* C4: BEGIN (through sqlite3_exec or sqlite3_step) on a handle whose
\* transaction is already active fails with result code SQLITE_BUSY (5) and the
\* error "A transaction is already active.", puts nothing on the wire, and
\* leaves the baton and transaction_has_began as they were.
C4_BeginWhileActiveIsBusy ==
  (Idle /\ call.task = "begin" /\ pre.transaction_has_began) =>
    /\ ret = Some(SQLITE_BUSY)
    /\ Pushed(AlreadyActiveError)
    /\ wire = {}
    /\ call.request = None
    /\ db = pre

\* C5: a call of bind, step, exec, prepare or open that returned an error
\* code has pushed an entry on the error stack whose code is the code it
\* returned, so sqlite3_extended_errcode right after it returns that code.
C5_ReturnedCodeIsPushedCode ==
  (ReturnedError /\ call.entry \in {"bind", "step", "exec", "prepare", "open"}) =>
    /\ IsSome(get_latest_error(errStack))
    /\ sqlite3_extended_errcode(errStack) = Unwrap(ret)

\* C6: sqlite3_exec of ROLLBACK puts nothing on the wire, leaves the handle
\* with no baton and transaction_has_began cleared (so autocommit is 1), and
\* returns SQLITE_OK.
C6_RollbackIsLocal ==
  (Idle /\ call.entry = "exec" /\ ExecTask(call.sql) = "rollback") =>
    /\ wire = {}
    /\ call.request = None
    /\ db.transaction_baton = None
    /\ ~db.transaction_has_began
    /\ sqlite3_get_autocommit(db) = 1
    /\ ret = Some(SQLITE_OK)

\* C7: COMMIT outside a transaction returns an error (the "no transaction is
\* active" error) with nothing put on the wire and the handle untouched;
\* COMMIT inside a transaction puts on the wire the SQL it was given together
\* with the baton stored when it was called, and once it has succeeded the
\* handle has no baton and transaction_has_began is cleared.
C7_Commit ==
  call.task = "commit" =>
    /\ ~pre.transaction_has_began =>
         /\ Idle
         /\ ret = Some(SQLITE_ERROR)
         /\ Pushed(NoActiveError)
         /\ wire = {}
         /\ call.request = None
         /\ db = pre
    /\ pre.transaction_has_began =>
         /\ IsSome(pre.transaction_baton)
         /\ Idle => wire # {}
         /\ \A r \in wire :
              /\ IsExecuteOf(Steps(r)[1], call.task_sql)
              /\ HasBaton(r)
              /\ r.baton = pre.transaction_baton
         /\ ReturnedSuccess =>
              /\ db.transaction_baton = None
              /\ ~db.transaction_has_began

C7_CommitSucceeded ==
  /\ call.task = "commit"
  /\ pre.transaction_has_began
  /\ ReturnedSuccess
  /\ wire # {}

C9_RequestShape ==
  BuiltRequest =>
    LET r == Unwrap(call.request)
    IN /\ IsExecuteOf(Steps(r)[1], call.task_sql)
       /\ HasClose(r) <=> ~pre.transaction_has_began
       /\ HasBaton(r) <=> pre.transaction_has_began

\* C9, amended: that shape is the HTTP transport's.  A request built while the
\* WebSocket transport is active is the bare execute{sql, args}, with neither
\* a close step nor a baton.
C9_RequestShapeByTransport ==
  BuiltRequest =>
    LET r == Unwrap(call.request)
    IN /\ IsExecuteOf(Steps(r)[1], call.task_sql)
       /\ pre.strategy = "Http" =>
            /\ Len(Steps(r)) = IF pre.transaction_has_began THEN 1 ELSE 2
            /\ HasClose(r) <=> ~pre.transaction_has_began
            /\ HasBaton(r) <=> pre.transaction_has_began
            /\ HasBaton(r) => r.baton = pre.transaction_baton
       /\ pre.strategy = "Websocket" =>
            /\ ~pre.transaction_has_began
            /\ ~HasClose(r)
            /\ ~HasBaton(r)

C9_BuiltInTransaction ==
  /\ BuiltRequest
  /\ pre.strategy = "Http"
  /\ pre.transaction_has_began
  /\ call.task = "handle_execute"
  /\ HasBaton(Unwrap(call.request))

\* C10: HttpStrategy::send makes at most MAX_ATTEMPTS (5) attempts; it makes
\* a further attempt after, and only after, a connection failure, a body-read
\* failure or a non-2xx status, and not after the fifth; after the fifth such
\* failure it returns an error that the call reports as SQLITE_ERROR; and it
\* always returns.
C10_BoundedRetry ==
  /\ [](pc = "http" => http.attempt \in 1..MAX_ATTEMPTS)
  /\ [][pc = "http" =>
          /\ (pc' = "http") <=> (reply' \in RetriableKinds /\ http.attempt < MAX_ATTEMPTS)
          /\ pc' = "http" => http'.attempt = http.attempt + 1
          /\ (reply' \in RetriableKinds /\ http.attempt = MAX_ATTEMPTS) =>
               /\ pc' = "idle"
               /\ ret' = Some(SQLITE_ERROR)
               /\ sqlite3_extended_errcode(errStack') = SQLITE_ERROR]_vars
  /\ (pc = "http") ~> (pc = "idle")

C10_GaveUpAfterFiveFailures ==
  /\ Idle
  /\ reply \in RetriableKinds
  /\ ret = Some(SQLITE_ERROR)

\* C11: for every k in 0..4, when the first k attempts of an HTTP send fail
\* retriably and attempt k+1 gets a well-formed 2xx body, send returns Ok
\* after exactly k+1 POSTs and exactly k sleeps of RETRY_DELAY_MS (100 ms);
\* and while send is running, every failure so far was followed by one sleep
\* and one new attempt.
C11_SuccessAfterRetries ==
  /\ pc = "http" =>
       /\ net.posts = net.fails
       /\ http.attempt = net.posts + 1
       /\ http.sleeps = net.fails
  /\ (Idle /\ reply = "ok") =>
       /\ net.result = "Ok"
       /\ net.fails \in 0..(MAX_ATTEMPTS - 1)
       /\ net.posts = net.fails + 1
       /\ net.sleeps = net.fails
       /\ net.sleeps * RETRY_DELAY_MS = 100 * net.fails

C11_SuccessOnFourthAttempt ==
  /\ Idle
  /\ reply = "ok"
  /\ ReturnedSuccess
  /\ net.fails = 3
  /\ net.posts = 4
  /\ net.sleeps * RETRY_DELAY_MS = 300

\* C12: an HTTP send stops at the first 2xx answer that is not JSON or that
\* holds an error.message in one of its results: whatever the attempt number,
\* send returns Err at that attempt, no further POST is made, and the call
\* fails with SQLITE_ERROR as its returned and pushed code.
C12_NoRetryOnBadBody ==
  /\ reply \in {"bad_json", "embedded_error"} =>
       /\ Idle
       /\ net.result = "Err"
       /\ net.posts = net.fails + 1
       /\ ret = Some(SQLITE_ERROR)
       /\ sqlite3_extended_errcode(errStack) = SQLITE_ERROR
  /\ pc = "http" => reply \in RetriableKinds \cup {"none"}

C12_StoppedAtThirdAttempt ==
  /\ Idle
  /\ reply = "embedded_error"
  /\ net.posts = 3
  /\ net.fails = 2

\* C20: sqlite3_open_v2 with a name containing ":memory" returns CANTOPEN and
\* pushes "In-memory databases are not supported" with that code; it creates
\* no handle (the handle is as it was before the call), resolves no
\* credentials and puts nothing on the network.
C20_OpenInMemory ==
  (call.entry = "open" /\ (\E i \in DOMAIN call.sql : call.sql[i] = ":memory")) =>
    /\ Idle
    /\ ret = Some(SQLITE_CANTOPEN)
    /\ get_latest_error(errStack) = Some(<<IN_MEMORY_ERR_MSG, SQLITE_CANTOPEN>>)
    /\ db = pre
    /\ call.task = "none"
    /\ call.request = None
    /\ wire = {}
    /\ net = NetIdle

C20_InMemoryRefused ==
  /\ call.entry = "open"
  /\ call.sql = <<"file:", ":memory", ":?cache=shared">>
  /\ ~db.alive
  /\ ret = Some(SQLITE_CANTOPEN)

\* C13: a WebSocket send issued while the connection state is Disconnected
\* first reconnects, so the hello frame is the first frame it writes, and it
\* does not fail with the error that only says the state is Disconnected.
C13_SendReconnects ==
  (wsLog.op = "send" /\ wsLog.seen = "Disconnected") =>
    /\ wsLog.kind # "disconnected"
    /\ wsLog.result # Some(WebSocketStrategy_send([kind |-> "disconnected"]))
    /\ wsLog.frames # <<>>
    /\ wsLog.frames[1] = "hello"

\* The reader task of the connection the object holds: the latest one whose
\* handshake completed
CurrentReader(w) ==
  CHOOSE i \in DOMAIN w.readers :
    /\ w.readers[i].established
    /\ \A j \in DOMAIN w.readers : w.readers[j].established => j <= i

\* C14: once the reader task of an established connection has read a Close
\* frame or a read error, the state send and get_client consult is
\* Disconnected and the reader task has exited.
C14_ReaderMarksDisconnected ==
  (/\ wsLog.op = "reader"
   /\ wsLog.kind \in {"close", "error"}
   /\ wss.readers[wsLog.reader].established
   /\ wsLog.reader = CurrentReader(wss)) =>
    /\ WsState(wss) = "Disconnected"
    /\ wss.readers[wsLog.reader].status = "exited"

\* C15: once the strategy of a handle is Http it stays Http in every later
\* state of that handle, and every request of a call entered with the
\* strategy Http goes over HTTP: the call is never suspended in the WebSocket
\* transport and what it puts on the wire is an HTTP pipeline body.
C15_HttpIsSticky ==
  /\ [][(db.alive /\ db.strategy = "Http") => (db'.alive => db'.strategy = "Http")]_vars
  /\ [](pc = "ws" => db.alive /\ db.strategy = "Websocket")
  /\ []((pre.alive /\ pre.strategy = "Http") =>
          /\ pc # "ws"
          /\ \A r \in wire : "requests" \in DOMAIN r)

\* A handle opened on the WebSocket fell back to HTTP, and a later call sent
\* its request over HTTP and succeeded
C15_HttpAfterFallback ==
  /\ wss.websocket_handle
  /\ db.alive /\ db.strategy = "Http"
  /\ pre.alive /\ pre.strategy = "Http"
  /\ Idle /\ reply = "ok" /\ net.posts >= 1
  /\ wire # {}

\* C16: a WebSocket send that fails because the server answered the execute
\* with an error reports the error and leaves the strategy of the handle
\* WebSocket.
C16_ServerErrorKeepsWebSocket ==
  (Idle /\ pre.alive /\ pre.strategy = "Websocket" /\ reply = "server_error") =>
    /\ ReturnedError
    /\ db.strategy = "Websocket"

\* A bind call's value can be bound: every value but a null text pointer and
\* text that is not UTF-8
BindableValue(b) == b.fn = "text" => (~b.is_null /\ from_utf8(b.bytes).ok)

\* params maps index i to v and is otherwise as old was
HoldsExactly(params, old, i, v) ==
  /\ i \in DOMAIN params
  /\ params[i] = v
  /\ \A j \in (DOMAIN params \cup DOMAIN old) \ {i} :
       /\ j \in DOMAIN params /\ j \in DOMAIN old
       /\ params[j] = old[j]

\* The statement apart from its bound parameters is as it was
OnlyParamsChanged == stmt' = [stmt EXCEPT !.params = stmt'.params]

\* C17: every bind call with an index below 1 or above the parameter count
\* returns RANGE and leaves the bound parameters as they were; every bind
\* call with an index within 1..param_count leaves the map holding the new
\* value at that index and every other index as it was.
C17_BindRange ==
  [][call'.entry = "bind" =>
       LET i == Unwrap(call'.args).index
           b == Unwrap(call'.args).value
       IN /\ (i < 1 \/ i > stmt.param_count) =>
               (ret' = Some(SQLITE_RANGE) /\ stmt' = stmt)
          /\ (1 <= i /\ i <= stmt.param_count) =>
               /\ HoldsExactly(stmt'.params, stmt.params, i, BoundValue(b))
               /\ OnlyParamsChanged]_vars

\* C17, amended: sqlite3_bind_text with a null value pointer returns MISUSE
\* whatever the index; any other bind call with an index below 1 or above the
\* parameter count returns RANGE; sqlite3_bind_text with an index in range
\* and bytes that are not UTF-8 returns MISUSE; in these three cases the
\* statement is as it was.  Every other bind call returns OK and leaves the
\* map holding the new value at its index and every other index as it was.
C17_BindRangeOfBindable ==
  [][call'.entry = "bind" =>
       LET i == Unwrap(call'.args).index
           b == Unwrap(call'.args).value
           inRange == 1 <= i /\ i <= stmt.param_count
       IN IF b.fn = "text" /\ b.is_null
          THEN ret' = Some(SQLITE_MISUSE) /\ stmt' = stmt
          ELSE IF ~inRange
          THEN ret' = Some(SQLITE_RANGE) /\ stmt' = stmt
          ELSE IF ~BindableValue(b)
          THEN ret' = Some(SQLITE_MISUSE) /\ stmt' = stmt
          ELSE /\ ret' = Some(SQLITE_OK)
               /\ HoldsExactly(stmt'.params, stmt.params, i, BoundValue(b))
               /\ OnlyParamsChanged]_vars

\* The second parameter of a two-parameter statement was bound to a text
\* after the first had been bound to an integer
C17_SecondParameterBound ==
  /\ call.entry = "bind"
  /\ call.args = Some([index |-> 2, value |-> BindText(<<"a">>)])
  /\ ret = Some(SQLITE_OK)
  /\ stmt.param_count = 2
  /\ stmt.params = <<ValueInteger(7), ValueText(<<"a">>)>>

\* C18: sqlite3_step on a statement in state Done returns DONE, however often
\* it is repeated, puts no request on the wire, and leaves the statement
\* (state, cursor, result set, parameters), the handle and the error stack as
\* they were.
C18_StepOnDone ==
  [][(/\ pc = "idle"
      /\ stmt.alive
      /\ stmt.execution_state = "Done"
      /\ call'.entry = "step") =>
       /\ ret' = Some(SQLITE_DONE)
       /\ pc' = "idle"
       /\ call'.request = None
       /\ wire' = {}
       /\ stmt' = stmt
       /\ db' = db
       /\ errStack' = errStack]_vars

\* sqlite3_step was called on a statement that had returned all the rows of
\* its result set, and returned DONE again
C18_SteppedOnDone ==
  /\ call.entry = "step"
  /\ call.args = Some([state |-> "Done"])
  /\ ret = Some(SQLITE_DONE)
  /\ stmt.execution_state = "Done"
  /\ Len(stmt.result_rows) = MaxRows

\* C19: after each successful write on a handle, sqlite3_changes returns the
\* rows_written the server reported for that statement, and
\* sqlite3_last_insert_rowid returns the last_insert_rowid the server
\* reported for it parsed as i64, or 0 when the response carries none or one
\* that does not parse, whatever earlier statements stored on the handle.
C19_CountersOfLastWrite ==
  (/\ Idle
   /\ call.entry = "exec"
   /\ call.sql \in WriteSqls
   /\ reply = "ok"
   /\ ReturnedSuccess) =>
    /\ IsSome(net.reported.rows_written) =>
         sqlite3_changes(db) = Unwrap(net.reported.rows_written)
    /\ sqlite3_last_insert_rowid(db) =
         IF IsSome(net.reported.last_insert_rowid)
         THEN unwrap_or(parse_i64(Unwrap(net.reported.last_insert_rowid)), 0)
         ELSE 0

\* C21: sqlite3_close_v2 on a handle with an active transaction returns OK
\* and puts nothing on the wire; the handle it releases has no baton and is
\* marked as not in a transaction, and no handle is left.  On a null handle
\* it returns OK and changes nothing.
C21_CloseResetsTransaction ==
  call.entry = "close" =>
    /\ Idle
    /\ ret = Some(SQLITE_OK)
    /\ wire = {}
    /\ call.request = None
    /\ net = NetIdle
    /\ ~db.alive
    /\ pre.alive => IsSome(call.args)
    /\ (pre.alive /\ pre.transaction_has_began) =>
         /\ Unwrap(call.args).released.transaction_baton = None
         /\ ~Unwrap(call.args).released.transaction_has_began
         /\ Unwrap(call.args).released.strategy = pre.strategy
    /\ ~pre.alive => (db = pre /\ call.args = None)

\* A handle was closed while its transaction was active and held a baton
C21_ClosedInTransaction ==
  /\ call.entry = "close"
  /\ pre.alive
  /\ pre.transaction_has_began
  /\ IsSome(pre.transaction_baton)
  /\ ret = Some(SQLITE_OK)

\* The hook slot of op on a handle
SlotOf(d, op) ==
  CASE op = SQLITE_UPDATE -> d.update_hook
    [] op = SQLITE_INSERT -> d.insert_hook
    [] OTHER -> d.delete_hook

\* C22: register_hook with op INSERT, UPDATE or DELETE returns OK, leaves the
\* slot of op holding (cb, user_data), or nothing when cb is None, and leaves
\* the other two slots and the rest of the handle as they were; with any
\* other op it returns MISUSE and leaves the handle as it was.
C22_RegisterHook ==
  call.entry = "register_hook" =>
    LET a == Unwrap(call.args)
        SlotOps == {SQLITE_INSERT, SQLITE_UPDATE, SQLITE_DELETE}
    IN IF a.op \in SlotOps
       THEN /\ ret = Some(SQLITE_OK)
            /\ SlotOf(db, a.op) = IF a.callback = None THEN None
                                  ELSE Some(<<Unwrap(a.callback), a.user_data>>)
            /\ \A o \in SlotOps \ {a.op} : SlotOf(db, o) = SlotOf(pre, o)
            /\ [db EXCEPT !.update_hook = None, !.insert_hook = None, !.delete_hook = None]
                 = [pre EXCEPT !.update_hook = None, !.insert_hook = None,
                               !.delete_hook = None]
       ELSE ret = Some(SQLITE_MISUSE) /\ db = pre

\* The insert slot was replaced while the update slot held another callback
C22_InsertSlotReplaced ==
  /\ call.entry = "register_hook"
  /\ Unwrap(call.args).op = SQLITE_INSERT
  /\ pre.insert_hook = Some(<<"cb1", "u1">>)
  /\ db.insert_hook = Some(<<"cb2", "u2">>)
  /\ db.update_hook = Some(<<"cb1", "u1">>)
  /\ db.delete_hook = None

\* The hook operation a statement is, by its first word; SQLITE_OK for a
\* statement that is not an INSERT, UPDATE or DELETE
OpOfSql(sql) ==
  CASE sql = <<>> -> SQLITE_OK
    [] sql # <<>> /\ sql[1] = "INSERT" -> SQLITE_INSERT
    [] sql # <<>> /\ sql[1] = "UPDATE" -> SQLITE_UPDATE
    [] sql # <<>> /\ sql[1] = "DELETE" -> SQLITE_DELETE
    [] OTHER -> SQLITE_OK

\* This step completes an INSERT, UPDATE or DELETE with success on a handle
\* whose slot for that operation holds a callback
WriteSucceedsWithHook ==
  /\ pc = "http"
  /\ pc' = "idle"
  /\ ret' \in {Some(SQLITE_OK), Some(SQLITE_DONE)}
  /\ OpOfSql(call.sql) # SQLITE_OK
  /\ IsSome(SlotOf(db, OpOfSql(call.sql)))

\* C23: a successful INSERT, UPDATE or DELETE on a handle whose matching hook
\* slot is set invokes the callback exactly once; any other completion of a
\* statement (a failure, an empty slot, another statement) invokes none.
C23_HookOncePerWrite ==
  [][ (pc = "http" /\ pc' = "idle") =>
        hk'.invoked = hk.invoked + (IF WriteSucceedsWithHook THEN 1 ELSE 0) ]_vars

\* C30: while a hook callback runs, trigger_hook holds no slot lock, and a
\* callback that calls register_hook or trigger_hook for the same slot never
\* blocks on that lock.
C30_CallbackRunsUnlocked ==
  /\ pc = "hook" => hk.held = {}
  /\ pc # "deadlock"

\* C24: sqlite3_errmsg and sqlite3_extended_errcode return the message and the
\* code of the entry pushed last, and the null pointer and OK while nothing
\* was pushed; no step shortens the error stack, a step that lengthens it
\* pushes one entry, and a step that leaves its length leaves what the two
\* functions return.
C24_LatestErrorNeverShrinks ==
  [][ /\ errStack'.len >= errStack.len
      /\ errStack'.len > errStack.len =>
           /\ errStack'.len = errStack.len + 1
           /\ IsSome(errStack'.top)
      /\ errStack'.len = errStack.len =>
           /\ sqlite3_errmsg(errStack') = sqlite3_errmsg(errStack)
           /\ sqlite3_extended_errcode(errStack') = sqlite3_extended_errcode(errStack)
      /\ IF errStack'.len = 0
         THEN /\ sqlite3_errmsg(errStack') = None
              /\ sqlite3_extended_errcode(errStack') = SQLITE_OK
         ELSE /\ sqlite3_errmsg(errStack') = Some(Unwrap(errStack'.top)[1])
              /\ sqlite3_extended_errcode(errStack') = Unwrap(errStack'.top)[2] ]_vars

\* A failed step pushed the second error of the behaviour
C24_SecondErrorPushed ==
  /\ errStack.len = 2
  /\ call.entry = "step"
  /\ ReturnedError
  /\ sqlite3_extended_errcode(errStack) # SQLITE_CANTOPEN
  /\ IsSome(sqlite3_errmsg(errStack))

\* The first token of a statement that is not white space, upper-cased; ""
\* when there is none
RECURSIVE FirstWord(_)
FirstWord(sql) ==
  IF sql = <<>> THEN ""
  ELSE IF Head(sql) \in {" ", "\t", "\n"} THEN FirstWord(Tail(sql))
  ELSE UpperTok(Head(sql))

\* The operation a statement whose first word is w is to be routed to; other
\* stands for the ordinary execution of the entry point
RouteOfWord(w, other) ==
  CASE w = "BEGIN" -> "begin"
    [] w = "COMMIT" -> "commit"
    [] w = "ROLLBACK" -> "rollback"
    [] w = "PRAGMA" -> "pragma"
    [] OTHER -> other

\* C25: sqlite3_exec and sqlite3_step route a statement by its first word
\* that is not white space, whatever its case: BEGIN, COMMIT, ROLLBACK and
\* PRAGMA go to the transaction operations, anything else is executed as an
\* ordinary statement.
C25_RoutedByLeadingKeyword ==
  /\ call.entry = "exec" =>
       ExecTask(call.sql) = RouteOfWord(FirstWord(call.sql), "handle_execute")
  /\ (call.entry = "step" /\ call.task # "none") =>
       call.task = RouteOfWord(FirstWord(call.sql), "execute_stmt")

\* C26: no call ends in a panic: BEGIN on a handle whose transport is the
\* WebSocket and a frame that cannot be written both end in an error code
\* returned to the caller.
C26_NoPanic == pc # "panic"

\* The frames of a kind on a wire, and the send of a thread having returned
IsOpenStream(f) == f.type = "request" /\ f.request.type = "open_stream"
IsExecute(f) == f.type = "request" /\ f.request.type = "execute"
SendReturned(b) == b.pc = "idle" /\ b.n # 0

\* The frames with a request_id written so far, as (thread, position)
RequestFrames ==
  { p \in Tasks \X (1..(MaxConnects + 2 * MaxSends)) :
      p[2] \in DOMAIN bus[p[1]].wire /\ bus[p[1]].wire[p[2]].type = "request" }

\* C27: on each handle an execute frame directly follows the open_stream
\* frame of its send, carries the stream_id of that frame and another
\* request_id, and was written only after the answer to that open_stream was
\* received; no two frames of any sends share a request_id, no two
\* open_stream frames a stream_id; a send that returned Ok has received the
\* answer to its execute frame.
C27_SendFrameOrder ==
  /\ \A t \in Tasks : \A i \in DOMAIN bus[t].wire :
       IsExecute(bus[t].wire[i]) =>
         /\ i > 1
         /\ IsOpenStream(bus[t].wire[i - 1])
         /\ bus[t].wire[i - 1].request.stream_id = bus[t].wire[i].request.stream_id
         /\ bus[t].wire[i - 1].request_id # bus[t].wire[i].request_id
         /\ <<"request_id", bus[t].wire[i - 1].request_id>> \in bus[t].answered
  /\ \A p, q \in RequestFrames :
       LET f == bus[p[1]].wire[p[2]]
           g == bus[q[1]].wire[q[2]]
       IN p # q =>
            /\ f.request_id # g.request_id
            /\ (IsOpenStream(f) /\ IsOpenStream(g)) =>
                 f.request.stream_id # g.request.stream_id
  /\ \A t \in Tasks :
       (SendReturned(bus[t]) /\ bus[t].result = "Ok") =>
         /\ bus[t].m # 0
         /\ <<"request_id", bus[t].m>> \in bus[t].answered

\* Both threads sent and got Ok, with the frames of the two sends interleaved
C27_TwoSendsInterleaved ==
  /\ \A t \in Tasks : SendReturned(bus[t]) /\ bus[t].result = "Ok"
  /\ bus[1].n < bus[2].n
  /\ bus[2].n < bus[1].m
  /\ bus[2].s < bus[1].s

\* C28: a step that hands a value to a receiver removes, in the same step,
\* the entry whose sender it used and no other, and hands over that one
\* value; no sender is used twice; respond with a key that has no entry
\* returns the map as it was and no sender.
C28_RespondRemovesAndDelivers ==
  [][ \A t \in Tasks :
        /\ bus'[t].delivered # bus[t].delivered =>
             LET e == bus'[t].delivered[Len(bus'[t].delivered)]
             IN /\ bus'[t].delivered = Append(bus[t].delivered, e)
                /\ [key |-> e.key, tx |-> e.tx] \in bus[t].map
                /\ bus'[t].map = bus[t].map \ {[key |-> e.key, tx |-> e.tx]}
                /\ bus'[t].rx = Some(e.value)
                /\ KeyOf(e.value) = e.key
        /\ \A i, j \in DOMAIN bus'[t].delivered :
             i # j => bus'[t].delivered[i].tx # bus'[t].delivered[j].tx
        /\ \A i \in DOMAIN bus'[t].wire : \A value \in AnswersTo(bus'[t].wire[i]) :
             KeyOf(value) \notin Keys(bus'[t].map) =>
               ResponseBus_respond(bus'[t].map, KeyOf(value))
                 = [map |-> bus'[t].map, sender |-> None] ]_vars

\* The answers to hello, open_stream and execute were handed over one by one
\* and the map is empty again
C28_ThreeDeliveries ==
  \E t \in Tasks :
    /\ Len(bus[t].delivered) = 3
    /\ bus[t].map = {}
    /\ bus[t].wait = 3

\* C29: REQUEST_ID and STREAM_ID start at 1; no value of a counter is given
\* twice, to one thread or to two, and what one thread is given by a counter
\* increases strictly.
C29_IdsUniqueAndIncreasing ==
  LET Distinct(given) ==
        \A t, u \in Tasks : \A i \in DOMAIN given[t], j \in DOMAIN given[u] :
          <<t, i>> # <<u, j>> => given[t][i] # given[u][j]
      Increasing(given) ==
        \A t \in Tasks : \A i, j \in DOMAIN given[t] :
          i < j => given[t][i] < given[t][j]
      FromOne(given) ==
        /\ \A t \in Tasks : \A i \in DOMAIN given[t] : given[t][i] >= 1
        /\ (\E t \in Tasks : given[t] # <<>>) =>
             \E t \in Tasks : given[t] # <<>> /\ given[t][1] = 1
  IN /\ Distinct(ids.requests) /\ Increasing(ids.requests) /\ FromOne(ids.requests)
     /\ Distinct(ids.streams) /\ Increasing(ids.streams) /\ FromOne(ids.streams)

\* The two threads were given request_ids in turn
C29_AllocationsInterleaved ==
  /\ Len(ids.requests[1]) = 2
  /\ Len(ids.requests[2]) = 2
  /\ ids.requests[1][1] < ids.requests[2][1]
  /\ ids.requests[2][1] < ids.requests[1][2]
  /\ ids.requests[1][2] < ids.requests[2][2]
  /\ ids.streams[2] = <<1>>
  /\ ids.streams[1] = <<2>>

\* C31: sqlite3_step on a statement whose state is none of Prepared, Row and
\* Done returns MISUSE, puts nothing on the wire and leaves the statement, the
\* handle and the error stack as they were; a step that returned an error
\* leaves the statement in such a state; sqlite3_reset brings it back to
\* Prepared with no result set, so that the next step executes it again.
C31_StepRefusedUntilReset ==
  [][ /\ (/\ pc = "idle"
          /\ stmt.alive
          /\ stmt.execution_state \notin {"Prepared", "Row", "Done"}
          /\ call'.entry = "step") =>
            /\ ret' = Some(SQLITE_MISUSE)
            /\ pc' = "idle"
            /\ call'.request = None
            /\ wire' = {}
            /\ stmt' = stmt
            /\ db' = db
            /\ errStack' = errStack
      /\ (stmt'.alive /\ call'.entry = "step" /\ ReturnedError') =>
            stmt'.execution_state \notin {"Prepared", "Row", "Done"}
      /\ (stmt.alive /\ pc = "idle" /\ call'.entry = "reset") =>
            /\ stmt'.execution_state = "Prepared"
            /\ stmt'.result_rows = <<>> ]_vars

\* A step was refused on a statement left in Executing by a failed step
C31_SteppedOnExecuting ==
  /\ call.entry = "step"
  /\ call.args = Some([state |-> "Executing"])
  /\ ret = Some(SQLITE_MISUSE)
  /\ stmt.execution_state = "Executing"
  /\ errStack.len = 1

\* C32: the cursor of a prepared statement is absent or an index strictly
\* below the length of its result set, in every state, also right after
\* sqlite3_reset and after a re-execution that returned fewer rows.
C32_CursorInsideResult ==
  (stmt.alive /\ IsSome(stmt.current_row)) =>
    Unwrap(stmt.current_row) < Len(stmt.result_rows)

\* C33: an answer the reader task read while its receiver was waiting was
\* handed to that receiver, whether it came in a text frame or in a binary
\* frame.
C33_BinaryAnswerDelivered ==
  \A t \in Tasks : \A e \in bus[t].arrived :
    \E i \in DOMAIN bus[t].delivered :
      bus[t].delivered[i].key = e.key /\ bus[t].delivered[i].tx = e.tx

\* C34: an open over the WebSocket leaves the transport Connected, with the
\* writer half stored, only when the hello frame was written and hello_ok
\* came back; when the handshake fails the transport holds no writer half,
\* its state is Disconnected, no handle exists and the open returned CANTOPEN
C34_ConnectedOnlyAfterHelloOk ==
  (call.entry = "open" /\ call.args = Some([strategy |-> "Websocket"])) =>
    /\ wss.websocket_handle <=> WsState(wss) = "Connected"
    /\ wss.websocket_handle =>
         /\ [type |-> "hello"] \in wire
         /\ Len(wss.readers) = 1
         /\ wss.readers[1].established
         /\ ret = Some(SQLITE_OK)
    /\ ret # Some(SQLITE_OK) =>
         /\ ~wss.websocket_handle
         /\ WsState(wss) = "Disconnected"
         /\ ret = Some(SQLITE_CANTOPEN)
         /\ db = pre
         /\ IsSome(get_latest_error(errStack))
         /\ Unwrap(get_latest_error(errStack))[2] = SQLITE_CANTOPEN

\* An open whose hello frame was written and whose hello_ok never came
C34_HelloTimedOut ==
  /\ call.entry = "open"
  /\ call.args = Some([strategy |-> "Websocket"])
  /\ [type |-> "hello"] \in wire
  /\ Len(wss.readers) = 1
  /\ ~wss.readers[1].established
  /\ ret = Some(SQLITE_CANTOPEN)
  /\ ~db.alive

\* C35: on every handle each transaction the server holds open is the one
\* whose baton the handle stores, so at most one BEGIN obtained a baton and
\* none was overwritten
C35_OneBatonPerHandle ==
  \A h \in Handles :
    /\ Cardinality(threads.open[h]) <= 1
    /\ \A b \in threads.open[h] : threads.dbs[h].transaction_baton = Some(b)

\* C36: no answer the reader task read for a frame a thread had written is
\* dropped because the thread had not yet registered the key it waits on
C36_NoAnswerBeforeRegistration ==
  \A t \in Tasks : bus[t].lost = {}

\* C37: a COMMIT inside a transaction whose send failed returns the error and
\* leaves the transaction as it was: the baton stored when COMMIT was called
\* is still stored and transaction_has_began is still true, so that a later
\* COMMIT passes the guard and a later ROLLBACK has a transaction to reset
C37_FailedCommitKeepsTransaction ==
  (call.task = "commit" /\ pre.transaction_has_began /\ Idle /\ ReturnedError) =>
    /\ net.result = "Err"
    /\ IsSome(get_latest_error(errStack))
    /\ IsSome(db.transaction_baton)
    /\ db.transaction_baton = pre.transaction_baton
    /\ db.transaction_has_began
    /\ ~commit_tnx_on_db_inactive(db)
    /\ reset_txn_on_db(db) # db

\* A COMMIT inside a transaction whose send returned an error
C37_CommitSendFailed ==
  /\ call.task = "commit"
  /\ pre.transaction_has_began
  /\ Idle
  /\ ReturnedError
  /\ net.result = "Err"
  /\ wire # {}

\* C38: a ROLLBACK stepped as a prepared statement inside a transaction is
\* executed like any other statement, its request carrying the baton stored
\* when step was called and no close step; whatever the answer, the handle
\* stays in the transaction: a baton is stored (the one it had, or the one
\* the answer carried), transaction_has_began is true and
\* sqlite3_get_autocommit returns 0
C38_SteppedRollbackKeepsTransaction ==
  ( /\ call.entry = "step"
    /\ sql_is_rollback(to_uppercase(call.sql))
    /\ pre.transaction_has_began
    /\ call.request # None ) =>
    /\ call.task = "execute_stmt"
    /\ Unwrap(call.request) = DatabaseConnection_get_json_request(pre, call.sql, <<>>)
    /\ \A r \in wire :
         /\ IsExecuteOf(Steps(r)[1], call.sql)
         /\ HasBaton(r)
         /\ r.baton = pre.transaction_baton
         /\ ~HasClose(r)
    /\ db.transaction_has_began
    /\ sqlite3_get_autocommit(db) = 0
    /\ IsSome(db.transaction_baton)
    /\ db.transaction_baton \in {pre.transaction_baton, srvBaton}

\* A stepped ROLLBACK inside a transaction that the server answered
C38_RollbackStepped ==
  /\ call.entry = "step"
  /\ call.sql = <<"ROLLBACK">>
  /\ pre.transaction_has_began
  /\ ReturnedSuccess
  /\ wire # {}
  /\ net.result = "Ok"

\* C39: the call in which the handle falls back from the WebSocket to HTTP
\* returns the error of the WebSocket send and makes no HTTP request: its
\* statement was written to the socket at most once and nothing of it was
\* posted
C39_FallbackDoesNotResend ==
  (pre.alive /\ pre.strategy = "Websocket" /\ db.alive /\ db.strategy = "Http") =>
    /\ Idle
    /\ ReturnedError
    /\ net.posts = 0
    /\ net.result = "none"
    /\ http = HttpIdle
    /\ Cardinality(wire) <= 1
    /\ \A r \in wire : r = Unwrap(call.request) /\ "requests" \notin DOMAIN r

\* A call whose execute frame was written to the socket and failed, and after
\* which the handle is on HTTP
C39_FellBackAfterWrite ==
  /\ pre.alive /\ pre.strategy = "Websocket"
  /\ db.alive /\ db.strategy = "Http"
  /\ reply = "server_error"
  /\ wire # {}
  /\ ReturnedError

\* C40: what sqlite3_errmsg and sqlite3_extended_errcode return for a handle
\* changes only in a step of a call on that handle: a step in which no
\* thread working on handle h moved leaves both as they were for h
C40_ErrorsPerHandle ==
  [][ \A h \in Handles :
        (\A t \in Tasks : threads'.th[t] = threads.th[t] \/ threads'.th[t].h # h) =>
          /\ sqlite3_errmsg(errStack') = sqlite3_errmsg(errStack)
          /\ sqlite3_extended_errcode(errStack') = sqlite3_extended_errcode(errStack) ]_vars

====
